---- MODULE Spec2Model ----
(***************************************************************************)
(* Model of the ETL text-parsing pipeline of scripts/etl/dataTransformers.ts *)
(* (IngredientParser, InstructionParser, RecipeAnalyzer).                  *)
(*                                                                         *)
(* JavaScript strings are TLA+ strings; TLC evaluates Len, SubSeq and \o   *)
(* on them, so every regular expression of the source is written out as    *)
(* the character-level search it performs.  String positions are 1-based   *)
(* here and 0-based in the source.  Numbers produced by parseFloat and by  *)
(* division are exact rationals (records k/n/d) with the two special       *)
(* values NaN and Infinity that the source can produce.                    *)
(***************************************************************************)
EXTENDS Integers, Sequences, FiniteSets, TLC

VARIABLES
  fn,           \* the function the caller invokes
  arg,          \* its first argument, a JavaScript value (both, for convertToImperial)
  stepNumber,   \* parseInstruction's second argument (0 for the other functions)
  instructions, \* analyzeDifficulty's second argument (undefined for the others)
  pc,           \* "call" before the function has run, "done" after it
  ret,          \* the value it returned (NoReturn before, and when it threw)
  thrown,       \* "none", or the exception the call ended with
  timeMatches,  \* parseInstruction's local array timeMatches at its end
  made,         \* the parts the caller built the argument from
  lastIndex,    \* the lastIndex property of each regex of UNIT_PATTERNS
  calls         \* the number of calls made so far, this one included

vars == << fn, arg, stepNumber, instructions, pc, ret, thrown, timeMatches, made, lastIndex,
          calls >>

----------------------------------------------------------------------------
\* JavaScript values that reach the parsers as arguments.

JSString(s) == [t |-> "string", s |-> s, l |-> << >>]

JSUndefined == [t |-> "undefined", s |-> "", l |-> << >>]

JSNull == [t |-> "null", s |-> "", l |-> << >>]

JSNumber(s) == [t |-> "number", s |-> s, l |-> << >>]

JSArray(l) == [t |-> "array", s |-> "", l |-> l]

\* !v for the values above: undefined, null, "" and the number 0 are falsy.
Falsy(v) ==
  \/ v.t \in {"undefined", "null"}
  \/ v.t = "string" /\ v.s = ""
  \/ v.t = "number" /\ v.s = "0"

----------------------------------------------------------------------------
\* Characters and strings.

Char(s, i) == IF i >= 1 /\ i <= Len(s) THEN SubSeq(s, i, i) ELSE ""

LowerAlphabet == "abcdefghijklmnopqrstuvwxyz"

UpperAlphabet == "ABCDEFGHIJKLMNOPQRSTUVWXYZ"

Digits == "0123456789"

CharsOf(s) == { SubSeq(s, i, i) : i \in 1..Len(s) }

DigitChars == CharsOf(Digits)

IsDigit(c) == c \in DigitChars

\* \s of a JavaScript regular expression, over the characters used here.
IsSpace(c) == c \in {" ", "\t"}

\* \w of a JavaScript regular expression: [A-Za-z0-9_].
WordChars == CharsOf(LowerAlphabet) \cup CharsOf(UpperAlphabet) \cup CharsOf(Digits) \cup {"_"}

IsWordChar(c) == c \in WordChars

\* String.prototype.toLowerCase, one character.
LowerCaseOf ==
  [c \in CharsOf(UpperAlphabet) |->
     LET i == CHOOSE j \in 1..Len(UpperAlphabet) : SubSeq(UpperAlphabet, j, j) = c
     IN SubSeq(LowerAlphabet, i, i)]

LowerChar(c) ==
  IF c \in DOMAIN LowerCaseOf THEN LowerCaseOf[c] ELSE IF c = "É" THEN "é" ELSE c

\* String.prototype.toLowerCase, the two halves of a long string separately.
RECURSIVE ToLowerCase(_)
ToLowerCase(s) ==
  IF Len(s) <= 1 THEN LowerChar(s)
  ELSE ToLowerCase(SubSeq(s, 1, Len(s) \div 2)) \o ToLowerCase(SubSeq(s, Len(s) \div 2 + 1, Len(s)))

\* String.prototype.slice(from) with a 1-based position.
Rest(s, i) == SubSeq(s, i, Len(s))

RECURSIVE TrimStart(_)
TrimStart(s) == IF s # "" /\ IsSpace(Char(s, 1)) THEN TrimStart(Rest(s, 2)) ELSE s

RECURSIVE TrimEnd(_)
TrimEnd(s) ==
  IF s # "" /\ IsSpace(Char(s, Len(s))) THEN TrimEnd(SubSeq(s, 1, Len(s) - 1)) ELSE s

\* A trim that removes nothing.
NoTrim(s) == s

\* String.prototype.trim
Trim(s) == TrimEnd(TrimStart(s))

\* Does k occur in s at position i?
OccursAt(s, k, i) == i >= 1 /\ i + Len(k) - 1 <= Len(s) /\ SubSeq(s, i, i + Len(k) - 1) = k

\* Does k occur in s at position i when letter case is ignored (k is lower case)?
OccursAtI(s, k, i) ==
  i >= 1 /\ i + Len(k) - 1 <= Len(s) /\ ToLowerCase(SubSeq(s, i, i + Len(k) - 1)) = k

\* String.prototype.includes
Includes(s, k) == \E i \in 1..(Len(s) - Len(k) + 1) : OccursAt(s, k, i)

\* 1-based String.prototype.indexOf; 0 when k does not occur.
IndexOf(s, k) ==
  IF Includes(s, k)
  THEN CHOOSE i \in 1..(Len(s) - Len(k) + 1) :
         OccursAt(s, k, i) /\ \A j \in 1..(i - 1) : ~OccursAt(s, k, j)
  ELSE 0

\* s with every occurrence of k replaced by r.
RECURSIVE ReplaceAll(_, _, _)
ReplaceAll(s, k, r) ==
  LET cut(i) ==
        IF i = 0 THEN s
        ELSE SubSeq(s, 1, i - 1) \o r \o ReplaceAll(Rest(s, i + Len(k)), k, r)
  IN cut(IndexOf(s, k))

\* The state holds the caller's strings in ASCII, a character outside ASCII
\* written as a character reference; Characters gives the string itself.
Characters(s) ==
  ReplaceAll(ReplaceAll(ReplaceAll(s, "&deg;", "°"), "&Eacute;", "É"), "&eacute;", "é")

\* The JavaScript value the function receives for the value v of the state.
Received(v) ==
  IF v.t = "string" THEN JSString(Characters(v.s))
  ELSE IF v.t = "array"
       THEN JSArray([i \in DOMAIN v.l |->
                       IF v.l[i].t = "string" THEN JSString(Characters(v.l[i].s))
                       ELSE v.l[i]])
       ELSE v

\* String.prototype.replace(k, '') with a string pattern: only the first
\* occurrence of k is removed, wherever the regular expression had matched.
ReplaceFirst(s, k) ==
  LET i == IndexOf(s, k)
  IN IF i = 0 THEN s ELSE SubSeq(s, 1, i - 1) \o Rest(s, i + Len(k))

\* Number of characters from position i on that satisfy a class.
RECURSIVE DigitRun(_, _)
DigitRun(s, i) == IF IsDigit(Char(s, i)) THEN 1 + DigitRun(s, i + 1) ELSE 0

RECURSIVE SpaceRun(_, _)
SpaceRun(s, i) == IF IsSpace(Char(s, i)) THEN 1 + SpaceRun(s, i + 1) ELSE 0

\* \b at position i: between the characters i-1 and i exactly one is a word
\* character (the outside of the string counts as a non-word character).
WordBoundary(s, i) == IsWordChar(Char(s, i - 1)) # IsWordChar(Char(s, i))

\* Array.prototype.some / includes over a sequence of strings.
SomeIncluded(keywords, text) == \E i \in 1..Len(keywords) : Includes(text, keywords[i])

InList(list, x) == \E i \in 1..Len(list) : list[i] = x

\* The first of a non-empty set of positions or indices: the leftmost match of
\* a regular expression, the first pattern of a list that matches.
Least(S) == CHOOSE x \in S : \A y \in S : x <= y

----------------------------------------------------------------------------
\* Numbers.  A finite number is the reduced fraction n/d with d > 0.

RECURSIVE GCD(_, _)
GCD(a, b) == IF b = 0 THEN a ELSE GCD(b, a % b)

Num(n, d) ==
  LET g == GCD(IF n < 0 THEN -n ELSE n, d)
  IN [k |-> "number", n |-> n \div g, d |-> d \div g]

NaN == [k |-> "NaN", n |-> 0, d |-> 0]

Infinity == [k |-> "Infinity", n |-> 1, d |-> 0]

\* the initial value of parseIngredient's local variable quantity
Null == [k |-> "null", n |-> 0, d |-> 0]

\* a / b on non-negative numbers, as IEEE division: x/0 is Infinity, 0/0 is NaN.
Divide(a, b) ==
  IF a.k = "NaN" \/ b.k = "NaN" THEN NaN
  ELSE IF b.n = 0 THEN (IF a.n = 0 THEN NaN ELSE Infinity)
  ELSE Num(a.n * b.d, a.d * b.n)

RECURSIVE Pow10(_)
Pow10(e) == IF e = 0 THEN 1 ELSE 10 * Pow10(e - 1)

DigitValueOf ==
  [c \in DigitChars |-> CHOOSE v \in 0..9 : SubSeq(Digits, v + 1, v + 1) = c]

\* Value of a string of decimal digits.
RECURSIVE DigitsValue(_)
DigitsValue(s) ==
  IF s = "" THEN 0
  ELSE 10 * DigitsValue(SubSeq(s, 1, Len(s) - 1))
       + DigitValueOf[SubSeq(s, Len(s), Len(s))]

\* parseFloat: skips leading white space and reads the longest prefix that is
\* a decimal literal (digits, optionally a point and digits); NaN when the
\* string does not start with one.  Signs and exponents do not occur in the
\* strings the quantity patterns capture.
ParseFloat(str) ==
  LET s == TrimStart(str)
      a == DigitRun(s, 1)
      b == IF Char(s, a + 1) = "." THEN DigitRun(s, a + 2) ELSE 0
  IN IF a = 0 /\ b = 0 THEN NaN
     ELSE Num(DigitsValue(SubSeq(s, 1, a)) * Pow10(b) + DigitsValue(SubSeq(s, a + 2, a + 1 + b)),
              Pow10(b))

\* parseInt(str) for the digit strings the time and temperature patterns capture.
ParseInt(str) == DigitsValue(SubSeq(str, 1, DigitRun(str, 1)))

----------------------------------------------------------------------------
\* IngredientParser.QUANTITY_PATTERNS.  Each pattern is ^(head)\s+(.+)$; the
\* strings contain no line terminator, so "." matches every character.

QuantityWords ==
  << "one", "two", "three", "four", "five", "six", "seven", "eight", "nine", "ten",
     "half", "quarter", "third" >>

\* Position where group 2 begins when group 1 ends at position e: \s+ takes the
\* white space after e, (.+) the rest (at least one character); 0 on failure.
TailStart(s, e) ==
  LET sp == SpaceRun(s, e + 1)
  IN IF e = 0 \/ sp = 0 THEN 0
     ELSE IF e + sp < Len(s) THEN e + sp + 1
     ELSE IF sp >= 2 THEN Len(s)
     ELSE 0

\* Length of the head that pattern k (1: fraction, 2: mixed number, 3: decimal,
\* 4: whole number, 5: word) captures as group 1; 0 when it does not match.
QuantityHead(k, s) ==
  LET a == DigitRun(s, 1)
      frac(from) == \* length of \d+\/\d+ at position from, 0 if absent
        LET x == DigitRun(s, from)
            y == DigitRun(s, from + x + 1)
        IN IF x > 0 /\ Char(s, from + x) = "/" /\ y > 0 THEN x + 1 + y ELSE 0
      mixed(sp) == \* \d+\s+\d+\/\d+ where sp is the length of the white space
        LET tail(f) == IF a > 0 /\ sp > 0 /\ f > 0 THEN a + sp + f ELSE 0
        IN tail(frac(a + sp + 1))
      decimal(dec) == IF a > 0 /\ Char(s, a + 1) = "." /\ dec > 0 THEN a + 1 + dec ELSE 0
      word(words) == IF words = {} THEN 0 ELSE Len(QuantityWords[Least(words)])
  IN CASE k = 1 -> frac(1)
       [] k = 2 -> mixed(SpaceRun(s, a + 1))
       [] k = 3 -> decimal(DigitRun(s, a + 2))
       [] k = 4 -> a
       [] k = 5 -> word({ i \in 1..Len(QuantityWords) :
                            /\ OccursAtI(s, QuantityWords[i], 1)
                            /\ TailStart(s, Len(QuantityWords[i])) > 0 })

\* trimmed.match(QUANTITY_PATTERNS[k]): groups 1 and 2, or ok = FALSE.
QuantityMatch(k, s) ==
  LET groups(e, t) == IF t = 0 THEN [ok |-> FALSE, q |-> "", rest |-> ""]
                      ELSE [ok |-> TRUE, q |-> SubSeq(s, 1, e), rest |-> Rest(s, t)]
      head(e) == groups(e, TailStart(s, e))
  IN head(QuantityHead(k, s))

\* Lines 298-317: the value assigned to quantity from the captured string.
\* A string with a "/" always takes the first branch, mixed numbers included.
ParseQuantityStr(quantityStr) ==
  IF Includes(quantityStr, "/")
  THEN LET i == IndexOf(quantityStr, "/")
           p0 == SubSeq(quantityStr, 1, i - 1)
           p1 == Rest(quantityStr, i + 1)
       IN IF ~Includes(p1, "/") THEN Divide(ParseFloat(p0), ParseFloat(p1)) ELSE Null
  ELSE IF Includes(quantityStr, " ")
  THEN \* parts[1].includes('/') is false here: quantity keeps its value null
       Null
  ELSE ParseFloat(quantityStr)

----------------------------------------------------------------------------
\* IngredientParser.UNIT_PATTERNS: the alternatives of each family in the
\* order of the source.  Families 1-6 are \b(...)\b, family 7 is ^(...).

UNIT_PATTERNS ==
  << << "cup", "cups", "c.", "tbsp", "tablespoon", "tablespoons", "tsp", "teaspoon",
        "teaspoons", "fl oz", "fluid ounce", "pint", "pints", "quart", "quarts", "gallon",
        "gallons", "ml", "milliliter", "milliliters", "cl", "centiliter", "centiliters",
        "dl", "deciliter", "deciliters", "l", "liter", "liters", "litre", "litres" >>,
     << "lb", "lbs", "pound", "pounds", "oz", "ounce", "ounces", "kg", "kilogram",
        "kilograms", "g", "gram", "grams", "mg", "milligram", "milligrams", "tonne",
        "tonnes", "stone", "stones" >>,
     << "inch", "inches", "in", "ft", "feet", "foot", "yard", "yards", "yd", "mile",
        "miles", "mm", "millimeter", "millimeters", "cm", "centimeter", "centimeters", "m",
        "meter", "meters", "metre", "metres", "km", "kilometer", "kilometers" >>,
     << "piece", "pieces", "slice", "slices", "clove", "cloves", "head", "heads", "bunch",
        "bunches", "can", "cans", "package", "packages", "bag", "bags", "box", "boxes",
        "bottle", "bottles", "jar", "jars", "tube", "tubes" >>,
     << "small", "medium", "large", "extra large", "xl", "jumbo", "mini", "tiny", "micro",
        "macro" >>,
     << "°c", "°f", "celsius", "fahrenheit", "farenheit" >>,
     << "c.", "tbsp", "tsp", "fl oz", "lb", "oz", "ml", "g", "kg", "in", "ft", "cm", "m" >> >>

\* The text that family p matches at position i of s ("" if none): the first
\* alternative, in order, that occurs there (ignoring case: low is s in lower
\* case) between word boundaries; the start-of-string family 7 asks for no
\* boundary at all.
UnitMatchAt(p, s, low, i) ==
  LET alts == UNIT_PATTERNS[p]
      anchored == (p = Len(UNIT_PATTERNS))
      fits(a) == /\ OccursAt(low, a, i)
                 /\ anchored \/ (WordBoundary(s, i) /\ WordBoundary(s, i + Len(a)))
      matched(ok) == IF (anchored /\ i # 1) \/ ok = {} THEN ""
                     ELSE SubSeq(s, i, i + Len(alts[Least(ok)]) - 1)
  IN matched({ j \in 1..Len(alts) : fits(alts[j]) })

\* s.match(UNIT_PATTERNS[p])[0]: the leftmost match of family p, "" if none.
UnitMatch(p, s) ==
  LET leftmost(low, at) == IF at = {} THEN "" ELSE UnitMatchAt(p, s, low, Least(at))
      search(low) == leftmost(low, { i \in 1..Len(s) : UnitMatchAt(p, s, low, i) # "" })
  IN search(ToLowerCase(s))

\* The regexes of UNIT_PATTERNS carry the g flag, so each has a lastIndex
\* property that lives as long as the module; all are 0 after loading.
ZeroIndexes == [p \in 1..Len(UNIT_PATTERNS) |-> 0]

\* UNIT_PATTERNS[p].exec(s) with lastIndex index: the search starts at index
\* and leaves lastIndex behind the match, or at 0 when nothing is found.
RegExpExec(p, s, index) ==
  LET leftmost(low, at) ==
        IF at = {} THEN [text |-> "", lastIndex |-> 0]
        ELSE [text |-> UnitMatchAt(p, s, low, Least(at)),
              lastIndex |-> Least(at) - 1 + Len(UnitMatchAt(p, s, low, Least(at)))]
      search(low) ==
        leftmost(low, { i \in (index + 1)..Len(s) : UnitMatchAt(p, s, low, i) # "" })
  IN search(ToLowerCase(s))

\* s.match(UNIT_PATTERNS[p]) with lastIndex index: for a global regex match
\* sets lastIndex to 0, collects every match from the start of s, and ends
\* on the failed search that sets lastIndex to 0 again; text is match[0].
StringMatch(p, s, index) == [text |-> UnitMatch(p, s), lastIndex |-> 0]

\* A unit search that takes the token that begins first in s, whatever
\* its family.
FindUnitLeftmost(p, s, indexes) ==
  LET start(q) == Least({ i \in 1..Len(s) : UnitMatchAt(q, s, ToLowerCase(s), i) # "" })
      pick(families) ==
        IF families = {} THEN [text |-> "", lastIndex |-> indexes]
        ELSE [text |-> UnitMatch(CHOOSE q \in families :
                                   \A r \in families : start(q) <= start(r), s),
              lastIndex |-> indexes]
  IN pick({ q \in p..Len(UNIT_PATTERNS) : UnitMatch(q, s) # "" })

\* The loops of lines 322-329 and 347-354 from family p on, the regexes
\* having the lastIndex values indexes: match[0] of the first family, in
\* order, that matches s ("" when no family matches) and the lastIndex
\* values afterwards.
RECURSIVE FindUnitFrom(_, _, _)
FindUnitFrom(p, s, indexes) ==
  LET orNext(m) ==
        IF m.text # ""
        THEN [text |-> m.text, lastIndex |-> [indexes EXCEPT ![p] = m.lastIndex]]
        ELSE FindUnitFrom(p + 1, s, [indexes EXCEPT ![p] = m.lastIndex])
  IN IF p > Len(UNIT_PATTERNS) THEN [text |-> "", lastIndex |-> indexes]
     ELSE orNext(StringMatch(p, s, indexes[p]))

FindUnit(s, indexes) == FindUnitFrom(1, s, indexes)

----------------------------------------------------------------------------
\* IngredientParser.normalizeUnit

volumeMap ==
  << << "c", "cup" >>, << "c.", "cup" >>, << "cups", "cup" >>, << "cup", "cup" >>,
     << "tbsp", "tablespoon" >>, << "tablespoon", "tablespoon" >>,
     << "tablespoons", "tablespoon" >>,
     << "tsp", "teaspoon" >>, << "teaspoon", "teaspoon" >>, << "teaspoons", "teaspoon" >>,
     << "fl oz", "fluid ounce" >>, << "fluid ounce", "fluid ounce" >>,
     << "fluid ounces", "fluid ounce" >>,
     << "pint", "pint" >>, << "pints", "pint" >>,
     << "quart", "quart" >>, << "quarts", "quart" >>,
     << "gallon", "gallon" >>, << "gallons", "gallon" >>,
     << "ml", "milliliter" >>, << "milliliter", "milliliter" >>,
     << "milliliters", "milliliter" >>,
     << "l", "liter" >>, << "liter", "liter" >>, << "liters", "liter" >>,
     << "litre", "liter" >>, << "litres", "liter" >> >>

weightMap ==
  << << "lb", "pound" >>, << "lbs", "pound" >>, << "pound", "pound" >>,
     << "pounds", "pound" >>,
     << "oz", "ounce" >>, << "ounce", "ounce" >>, << "ounces", "ounce" >>,
     << "kg", "kilogram" >>, << "kilogram", "kilogram" >>, << "kilograms", "kilogram" >>,
     << "g", "gram" >>, << "gram", "gram" >>, << "grams", "gram" >>,
     << "mg", "milligram" >>, << "milligram", "milligram" >>,
     << "milligrams", "milligram" >> >>

\* The properties with a lower-case name that an object literal inherits from
\* Object.prototype.  Their values are no strings: the function Object and
\* the object Object.prototype, written here as String() shows them.
ObjectPrototype ==
  << << "constructor", "function Object() { [native code] }" >>,
     << "__proto__", "[object Object]" >> >>

\* The own property key of an object literal given as a list of pairs; ""
\* (undefined) when there is none.
OwnProperty(map, key) ==
  LET at == { i \in 1..Len(map) : map[i][1] = key }
  IN IF at = {} THEN "" ELSE map[CHOOSE i \in at : TRUE][2]

\* map[key] for an object literal: an own property, else an inherited one,
\* else "" (undefined).
Lookup(map, key) ==
  IF OwnProperty(map, key) # "" THEN OwnProperty(map, key)
  ELSE OwnProperty(ObjectPrototype, key)

normalizeUnit(unit) ==
  IF unit = "" THEN "unknown"
  ELSE LET lowerUnit == ToLowerCase(unit)
       IN IF Lookup(volumeMap, lowerUnit) # "" THEN Lookup(volumeMap, lowerUnit)
          ELSE IF Lookup(weightMap, lowerUnit) # "" THEN Lookup(weightMap, lowerUnit)
          ELSE unit

----------------------------------------------------------------------------
\* IngredientParser.convertToImperial

\* a * b on non-negative finite numbers and NaN.
Multiply(a, b) ==
  IF a.k = "NaN" \/ b.k = "NaN" THEN NaN ELSE Num(a.n * b.n, a.d * b.d)

\* The comparisons of lines 649-683 in their order: the spellings of one
\* metric unit, the factor and the imperial unit returned.
MetricConversions ==
  << [tokens |-> {"ml", "milliliter", "milliliters"},
      ratio |-> Num(422675, 100000000), unit |-> "cups"],
     [tokens |-> {"l", "liter", "liters", "litre", "litres"},
      ratio |-> Num(422675, 100000), unit |-> "cups"],
     [tokens |-> {"cl", "centiliter", "centiliters"},
      ratio |-> Num(422675, 10000000), unit |-> "cups"],
     [tokens |-> {"dl", "deciliter", "deciliters"},
      ratio |-> Num(422675, 1000000), unit |-> "cups"],
     [tokens |-> {"g", "gram", "grams"},
      ratio |-> Num(35274, 1000000), unit |-> "oz"],
     [tokens |-> {"kg", "kilogram", "kilograms"},
      ratio |-> Num(220462, 100000), unit |-> "lbs"],
     [tokens |-> {"mg", "milligram", "milligrams"},
      ratio |-> Num(35274, 1000000000), unit |-> "oz"],
     [tokens |-> {"cm", "centimeter", "centimeters"},
      ratio |-> Num(393701, 1000000), unit |-> "inches"],
     [tokens |-> {"mm", "millimeter", "millimeters"},
      ratio |-> Num(393701, 10000000), unit |-> "inches"],
     [tokens |-> {"m", "meter", "meters", "metre", "metres"},
      ratio |-> Num(328084, 100000), unit |-> "feet"] >>

\* The result for the string unit when key is what the comparisons see.
ConvertByKey(quantity, unit, key) ==
  LET hit == { i \in 1..Len(MetricConversions) : key \in MetricConversions[i].tokens }
      entry(i) == [quantity |-> Multiply(quantity, MetricConversions[i].ratio),
                   unit |-> JSString(MetricConversions[i].unit)]
  IN IF hit = {} THEN [quantity |-> quantity, unit |-> JSString(unit)]
     ELSE entry(Least(hit))

\* convertToImperial comparing the unit as written.
convertToImperialCaseSensitive(quantity, unit) ==
  IF Falsy(unit) \/ unit.t # "string"
  THEN [quantity |-> quantity, unit |-> IF Falsy(unit) THEN JSString("unknown") ELSE unit]
  ELSE ConvertByKey(quantity, unit.s, unit.s)

\* Lines 641-686; unit is a JavaScript value, quantity a number.
convertToImperial(quantity, unit) ==
  IF Falsy(unit) \/ unit.t # "string"
  THEN [quantity |-> quantity, unit |-> IF Falsy(unit) THEN JSString("unknown") ELSE unit]
  ELSE ConvertByKey(quantity, unit.s, ToLowerCase(unit.s))

----------------------------------------------------------------------------
\* IngredientParser.INGREDIENT_CLASSIFICATIONS: the keyword lists, verbatim.

\* INGREDIENT_CLASSIFICATIONS.protein_main (33 keywords)
protein_main ==
  << "chicken", "beef", "pork", "lamb", "turkey", "duck", "goose", "venison", "bacon",
     "ham", "sausage", "pepperoni", "salami", "prosciutto", "chorizo", "brisket", "ribs",
     "steak", "chop", "cutlet", "tenderloin", "roast", "ground beef", "ground pork",
     "ground turkey", "ground chicken", "mince", "poultry", "game", "rabbit", "bison",
     "elk", "boar" >>

\* INGREDIENT_CLASSIFICATIONS.protein_source (45 keywords)
protein_source ==
  << "fish", "salmon", "tuna", "cod", "halibut", "shrimp", "crab", "lobster", "scallops",
     "mussels", "clams", "oysters", "tofu", "tempeh", "seitan", "mackerel", "sardines",
     "anchovy", "anchovies", "trout", "bass", "snapper", "tilapia", "prawns", "crayfish",
     "crawfish", "squid", "octopus", "calamari", "lentils", "chickpeas", "garbanzo",
     "black beans", "kidney beans", "pinto beans", "navy beans", "lima beans", "edamame",
     "quinoa", "hemp seeds", "chia seeds", "nutritional yeast", "protein powder", "whey",
     "casein" >>

\* INGREDIENT_CLASSIFICATIONS.dairy (41 keywords)
dairy ==
  << "milk", "cheese", "butter", "cream", "yogurt", "sour cream", "buttermilk",
     "margarine", "heavy cream", "half and half", "ricotta", "cottage cheese",
     "mozzarella", "cheddar", "parmesan", "feta", "goat cheese", "brie", "camembert",
     "gouda", "swiss", "provolone", "monterey jack", "colby", "pepper jack", "blue cheese",
     "gorgonzola", "roquefort", "stilton", "cream cheese", "mascarpone", "kefir",
     "greek yogurt", "skyr", "quark", "fromage blanc", "creme fraiche", "ice cream",
     "gelato", "sorbet", "frozen yogurt" >>

\* INGREDIENT_CLASSIFICATIONS.vegetable (88 keywords)
vegetable ==
  << "onion", "garlic", "tomato", "pepper", "carrot", "celery", "lettuce", "spinach",
     "broccoli", "cauliflower", "mushroom", "potato", "sweet potato", "corn", "peas",
     "beans", "cucumber", "zucchini", "squash", "eggplant", "bell pepper", "jalapeño",
     "chili pepper", "cabbage", "kale", "arugula", "asparagus", "artichoke", "avocado",
     "beet", "beets", "beetroot", "radish", "turnip", "rutabaga", "parsnip", "leek",
     "shallot", "scallion", "green onion", "spring onion", "chive", "chives", "herbs",
     "cilantro", "parsley", "basil", "oregano", "thyme", "rosemary", "sage", "mint",
     "dill", "tarragon", "fennel", "endive", "escarole", "radicchio", "watercress",
     "mizuna", "bok choy", "napa cabbage", "daikon", "jicama", "kohlrabi", "okra",
     "brussels sprouts", "collard greens", "mustard greens", "chard", "beet greens",
     "arugula", "rocket", "mesclun", "mache", "frisee", "iceberg", "romaine",
     "butter lettuce", "bibb lettuce", "red leaf", "green leaf", "spinach", "microgreens",
     "sprouts", "alfalfa", "mung bean sprouts", "broccoli sprouts" >>

\* INGREDIENT_CLASSIFICATIONS.grain (80 keywords)
grain ==
  << "rice", "pasta", "noodles", "bread", "flour", "oats", "quinoa", "barley", "wheat",
     "buckwheat", "millet", "couscous", "bulgur", "crackers", "cereal", "brown rice",
     "white rice", "wild rice", "jasmine rice", "basmati rice", "arborio rice",
     "sushi rice", "sticky rice", "black rice", "red rice", "spaghetti", "penne",
     "rigatoni", "fettuccine", "linguine", "macaroni", "lasagna", "ravioli", "tortellini",
     "gnocchi", "ramen", "soba", "udon", "rice noodles", "vermicelli", "angel hair",
     "fusilli", "rotini", "ziti", "breadcrumbs", "panko", "croutons", "tortilla", "pita",
     "naan", "bagel", "muffin", "biscuit", "scone", "croissant", "baguette", "sourdough",
     "rye bread", "whole wheat", "multigrain", "sprouted", "gluten-free bread", "cornmeal",
     "polenta", "grits", "semolina", "farro", "spelt", "kamut", "amaranth", "teff",
     "sorghum", "triticale", "rye", "oats", "steel cut oats", "rolled oats",
     "instant oats", "granola", "muesli" >>

\* INGREDIENT_CLASSIFICATIONS.fat (40 keywords)
fat ==
  << "oil", "olive oil", "vegetable oil", "coconut oil", "butter", "margarine", "lard",
     "shortening", "ghee", "avocado oil", "sesame oil", "canola oil", "sunflower oil",
     "safflower oil", "peanut oil", "walnut oil", "almond oil", "hazelnut oil",
     "pistachio oil", "macadamia oil", "grapeseed oil", "rice bran oil", "palm oil",
     "palm kernel oil", "cottonseed oil", "soybean oil", "corn oil", "flaxseed oil",
     "hemp oil", "argan oil", "truffle oil", "chili oil", "garlic oil", "herb oil",
     "infused oil", "bacon fat", "duck fat", "chicken fat", "beef tallow", "schmaltz" >>

\* INGREDIENT_CLASSIFICATIONS.spice (125 keywords)
spice ==
  << "salt", "pepper", "garlic powder", "onion powder", "paprika", "cumin", "oregano",
     "basil", "thyme", "rosemary", "sage", "parsley", "cilantro", "dill", "chives",
     "bay leaves", "vanilla", "cinnamon", "nutmeg", "ginger", "turmeric", "cayenne",
     "red pepper flakes", "black pepper", "white pepper", "pink pepper", "green pepper",
     "allspice", "cardamom", "cloves", "star anise", "fennel seeds", "caraway seeds",
     "mustard seeds", "poppy seeds", "sesame seeds", "sunflower seeds", "pumpkin seeds",
     "chia seeds", "flax seeds", "hemp seeds", "coriander", "cilantro seeds", "dill seeds",
     "anise", "licorice", "tarragon", "marjoram", "savory", "sumac", "za'atar",
     "herbes de provence", "italian seasoning", "poultry seasoning", "pumpkin pie spice",
     "apple pie spice", "chai spice", "five spice", "seven spice", "berbere", "harissa",
     "ras el hanout", "jerk seasoning", "cajun seasoning", "old bay", "taco seasoning",
     "chili powder", "smoked paprika", "sweet paprika", "hot paprika", "chipotle",
     "jalapeño powder", "habanero powder", "ghost pepper", "scotch bonnet", "piri piri",
     "sriracha", "sambal oelek", "gochujang", "miso", "tamari", "soy sauce",
     "worcestershire", "fish sauce", "oyster sauce", "hoisin sauce", "teriyaki sauce",
     "ponzu", "mirin", "sake", "rice vinegar", "balsamic vinegar", "apple cider vinegar",
     "white vinegar", "red wine vinegar", "sherry vinegar", "champagne vinegar",
     "lemon juice", "lime juice", "orange juice", "grapefruit juice", "pomegranate juice",
     "tamarind", "date syrup", "maple syrup", "honey", "agave", "molasses", "brown sugar",
     "white sugar", "powdered sugar", "coconut sugar", "turbinado", "demerara",
     "muscovado", "jaggery", "palm sugar", "stevia", "monk fruit", "xylitol", "erythritol",
     "sorbitol", "maltitol", "saccharin", "aspartame" >>

\* INGREDIENT_CLASSIFICATIONS.fruit (56 keywords)
fruit ==
  << "apple", "banana", "orange", "lemon", "lime", "grapefruit", "strawberry", "blueberry",
     "raspberry", "blackberry", "cranberry", "cherry", "grape", "peach", "pear", "plum",
     "apricot", "nectarine", "pineapple", "mango", "papaya", "kiwi", "passion fruit",
     "dragon fruit", "pomegranate", "fig", "date", "raisin", "prune", "coconut", "avocado",
     "tomato", "cucumber", "watermelon", "cantaloupe", "honeydew", "persimmon", "guava",
     "lychee", "rambutan", "durian", "jackfruit", "breadfruit", "plantain", "banana",
     "dried fruit", "fruit leather", "jam", "jelly", "marmalade", "preserves", "compote",
     "chutney", "relish", "pickled fruit", "candied fruit" >>

\* INGREDIENT_CLASSIFICATIONS.nuts_seeds (35 keywords)
nuts_seeds ==
  << "almond", "walnut", "pecan", "hazelnut", "pistachio", "cashew", "macadamia",
     "brazil nut", "pine nut", "peanut", "sunflower seed", "pumpkin seed", "sesame seed",
     "chia seed", "flax seed", "hemp seed", "poppy seed", "caraway seed", "fennel seed",
     "mustard seed", "coriander seed", "nut butter", "peanut butter", "almond butter",
     "cashew butter", "sunflower butter", "tahini", "halva", "nut milk", "almond milk",
     "coconut milk", "oat milk", "soy milk", "rice milk", "hemp milk" >>

\* INGREDIENT_CLASSIFICATIONS.condiments (43 keywords)
condiments ==
  << "ketchup", "mustard", "mayonnaise", "ranch", "blue cheese dressing",
     "caesar dressing", "italian dressing", "vinaigrette", "balsamic glaze", "hot sauce",
     "tabasco", "sriracha", "chili sauce", "barbecue sauce", "teriyaki sauce", "soy sauce",
     "worcestershire sauce", "fish sauce", "oyster sauce", "hoisin sauce",
     "sweet and sour sauce", "duck sauce", "plum sauce", "tartar sauce", "cocktail sauce",
     "horseradish sauce", "aioli", "pesto", "chimichurri", "salsa", "guacamole", "hummus",
     "tzatziki", "tahini", "miso paste", "wasabi", "pickled ginger", "capers", "olives",
     "pickles", "relish", "chutney", "preserves" >>

\* The categories in the order in which the comment of lines 98-109 lists
\* them (vegetable and grain before dairy), not the order of the object literal.
INGREDIENT_CLASSIFICATIONS_ListedOrder ==
  << << "protein_main", protein_main >>, << "protein_source", protein_source >>,
     << "vegetable", vegetable >>, << "grain", grain >>, << "dairy", dairy >>,
     << "fat", fat >>, << "spice", spice >>, << "fruit", fruit >>,
     << "nuts_seeds", nuts_seeds >>, << "condiments", condiments >> >>

\* Object.entries(INGREDIENT_CLASSIFICATIONS): the categories in the order
\* in which the object literal declares them.
INGREDIENT_CLASSIFICATIONS ==
  << << "protein_main", protein_main >>, << "protein_source", protein_source >>,
     << "dairy", dairy >>, << "vegetable", vegetable >>, << "grain", grain >>,
     << "fat", fat >>, << "spice", spice >>, << "fruit", fruit >>,
     << "nuts_seeds", nuts_seeds >>, << "condiments", condiments >> >>

\* createPatternsFromKeywords(keywords) followed by .some(p => p.test(name)):
\* the keywords are split by length into up to three alternations
\* \b(k1|k2|...)\b, and one of them matches iff some keyword occurs in name
\* between word boundaries (name is in lower case already).
KeywordPatternsMatch(keywords, name) ==
  LET bucket(k) == IF Len(k) <= 3 THEN 1 ELSE IF Len(k) <= 8 THEN 2 ELSE 3
  IN \E b \in 1..3 : \E j \in 1..Len(keywords) :
       /\ bucket(keywords[j]) = b
       /\ \E i \in 1..Len(name) :
            /\ OccursAt(name, keywords[j], i)
            /\ WordBoundary(name, i)
            /\ WordBoundary(name, i + Len(keywords[j]))

\* The generalPatterns of the nine matches...Patterns helpers, in the order in
\* which intelligentClassification calls them: the category returned, the
\* keyword lists turned into patterns, and the alternatives of the
\* hand-written patterns (each a plain substring, ignoring case).
PatternRules ==
  << [kind |-> "protein_main", keywords |-> protein_main \o protein_source,
      general |-> << "meat", "poultry", "game", "protein", "steak", "chop", "cutlet",
                     "tenderloin", "roast", "brisket", "ribs", "ground", "mince" >>],
     [kind |-> "vegetable", keywords |-> vegetable,
      general |-> << "vegetable", "veggie", "greens", "leafy", "root", "bulb", "tuber",
                     "stalk", "stem", "cruciferous", "allium", "nightshade", "sprout",
                     "shoot", "bud", "flower" >>],
     [kind |-> "fruit", keywords |-> fruit,
      general |-> << "berry", "fruit", "citrus", "tropical", "dried fruit", "jam", "jelly",
                     "marmalade", "compote", "chutney", "preserve" >>],
     [kind |-> "grain", keywords |-> grain,
      general |-> << "grain", "cereal", "starch", "carb", "bread", "pasta", "noodle",
                     "rice", "flour", "meal", "bran", "germ", "cracker", "biscuit",
                     "muffin" >>],
     [kind |-> "dairy", keywords |-> dairy,
      general |-> << "dairy", "milk", "cream", "cheese", "yogurt", "butter", "margarine",
                     "kefir", "fermented", "cultured", "probiotic" >>],
     [kind |-> "fat", keywords |-> fat,
      general |-> << "oil", "fat", "grease", "tallow", "lard", "shortening", "ghee",
                     "schmaltz" >>],
     [kind |-> "spice", keywords |-> spice,
      general |-> << "spice", "herb", "seasoning", "flavor", "powder", "ground", "dried",
                     "fresh", "extract", "essence", "aroma", "sauce", "paste", "condiment",
                     "vinegar", "juice", "syrup" >>],
     [kind |-> "nuts_seeds", keywords |-> nuts_seeds,
      general |-> << "nut", "seed", "kernel", "butter", "paste", "milk", "tahini",
                     "halva" >>],
     [kind |-> "condiments", keywords |-> condiments,
      general |-> << "sauce", "dressing", "dip", "spread", "pickle", "relish", "chutney",
                     "ketchup", "mustard", "mayo", "hot sauce", "barbecue", "teriyaki" >>] >>

\* matchesProteinPatterns ... matchesCondimentPatterns, by the rule's index.
MatchesPatterns(r, name) ==
  \/ KeywordPatternsMatch(PatternRules[r].keywords, name)
  \/ SomeIncluded(PatternRules[r].general, ToLowerCase(name))

\* A fallback that answers with the last rule that matches.
intelligentClassificationLastRule(ingredientName) ==
  IF Len(Trim(ingredientName)) = 0 THEN "other"
  ELSE LET name == ToLowerCase(ingredientName)
           hit == { r \in 1..Len(PatternRules) : MatchesPatterns(r, name) }
       IN IF hit = {} THEN "other"
          ELSE PatternRules[CHOOSE r \in hit : \A q \in hit : r >= q].kind

intelligentClassification(ingredientName) ==
  IF Len(Trim(ingredientName)) = 0 THEN "other"
  ELSE LET name == ToLowerCase(ingredientName)
           hit == { r \in 1..Len(PatternRules) : MatchesPatterns(r, name) }
       IN IF hit = {} THEN "other"
          ELSE PatternRules[CHOOSE r \in hit : \A q \in hit : r <= q].kind

\* The exact-keyword loop of classifyIngredient (lines 383-389) from category
\* c of a list of categories on: the first category with a keyword that is a
\* substring of name, "" when there is none.
RECURSIVE FirstKeywordCategory(_, _, _)
FirstKeywordCategory(classifications, c, name) ==
  IF c > Len(classifications) THEN ""
  ELSE IF SomeIncluded(classifications[c][2], name) THEN classifications[c][1]
  ELSE FirstKeywordCategory(classifications, c + 1, name)

classifyIngredient(ingredientName) ==
  IF Len(Trim(ingredientName)) = 0 THEN "other"
  ELSE LET name == Trim(ToLowerCase(ingredientName))
           category == FirstKeywordCategory(INGREDIENT_CLASSIFICATIONS, 1, name)
       IN IF category # "" THEN category ELSE intelligentClassification(name)

isOptional(ingredientStr) ==
  IF ingredientStr = "" THEN FALSE
  ELSE SomeIncluded(<< "optional", "to taste", "as needed", "if desired" >>,
                    ToLowerCase(ingredientStr))

----------------------------------------------------------------------------
\* IngredientParser.parseIngredient.  An absent (undefined) property of the
\* result is the empty sequence, a present one a sequence of length one.

DefaultIngredient ==
  [ingredient_name |-> "Unknown ingredient", quantity |-> << >>, unit |-> << >>,
   kind |-> "other", is_optional |-> FALSE, sort_order |-> 0]

\* x || undefined for a number: 0 and NaN (and null) are falsy.
\* A quantity handed on whatever its value, null apart.
NumberOrUndefinedKeepAll(x) == IF x.k = "null" THEN << >> ELSE << x >>

NumberOrUndefined(x) ==
  IF x.k = "Infinity" \/ (x.k = "number" /\ x.n # 0) THEN << x >> ELSE << >>

\* Steps 4 to 6 without the sentinel of step 4: the name is only trimmed.
FinishIngredientKeepName(trimmed, quantity, unit, name) ==
  [ingredient_name |-> Trim(name),
   quantity |-> NumberOrUndefined(quantity),
   unit |-> IF unit # "" THEN << unit >> ELSE << >>,
   kind |-> classifyIngredient(Trim(name)),
   is_optional |-> isOptional(trimmed),
   sort_order |-> 0]

\* Lines 357-371 (steps 4 to 6): the name is cleaned and the result built.
FinishIngredient(trimmed, quantity, unit, name) ==
  LET result(finalName) ==
        [ingredient_name |-> finalName,
         quantity |-> NumberOrUndefined(quantity),
         unit |-> IF unit # "" THEN << unit >> ELSE << >>,
         kind |-> classifyIngredient(finalName),
         is_optional |-> isOptional(trimmed),
         sort_order |-> 0]
  IN result(IF Len(Trim(name)) > 0 THEN Trim(name) ELSE "Unknown ingredient")

\* Lines 343-355 (step 3): while quantity is still null the unit is searched
\* in the whole trimmed string, and a match replaces unit and name.
UnitWithoutQuantity(trimmed, quantity, unit, name, indexes) ==
  LET found(m) ==
        [value |-> IF m.text # ""
                   THEN FinishIngredient(trimmed, quantity, normalizeUnit(m.text),
                                         Trim(ReplaceFirst(trimmed, m.text)))
                   ELSE FinishIngredient(trimmed, quantity, unit, name),
         lastIndex |-> m.lastIndex]
  IN found(IF quantity.k = "null" THEN FindUnit(trimmed, indexes)
           ELSE [text |-> "", lastIndex |-> indexes])

\* Lines 292-341 (steps 1 and 2): the first quantity pattern that matches
\* supplies quantity and rest, and the unit is searched in rest.
\* The regexes of UNIT_PATTERNS have the lastIndex values indexes when the
\* call begins; the result holds the value returned and their values after.
parseIngredientWith(ingredientStr, indexes) ==
  LET default == [value |-> DefaultIngredient, lastIndex |-> indexes]
      unitIn(trimmed, quantity, rest, m) ==
        IF m.text # ""
        THEN UnitWithoutQuantity(trimmed, quantity, normalizeUnit(m.text),
                                 Trim(ReplaceFirst(rest, m.text)), m.lastIndex)
        ELSE UnitWithoutQuantity(trimmed, quantity, "", rest, m.lastIndex)
      restOf(trimmed, quantity, rest) ==
        unitIn(trimmed, quantity, rest, FindUnit(rest, indexes))
      matched(trimmed, m) == restOf(trimmed, ParseQuantityStr(Trim(m.q)), Trim(m.rest))
      quantityIn(trimmed, matching) ==
        IF matching = {} THEN UnitWithoutQuantity(trimmed, Null, "", trimmed, indexes)
        ELSE matched(trimmed, QuantityMatch(Least(matching), trimmed))
      parse(trimmed) ==
        IF Len(trimmed) = 0 THEN default
        ELSE quantityIn(trimmed, { k \in 1..5 : QuantityMatch(k, trimmed).ok })
  IN IF Falsy(ingredientStr) \/ ingredientStr.t # "string" THEN default
     ELSE parse(Trim(ingredientStr.s))

\* IngredientParser.parseIngredient as a first call finds the regexes.
parseIngredient(ingredientStr) == parseIngredientWith(ingredientStr, ZeroIndexes).value

----------------------------------------------------------------------------
\* InstructionParser.TIME_PATTERNS

\* (minute|minutes|min|hour|hours|hr|hrs): nothing has to follow the unit, so
\* the first alternative that occurs is the one matched ("minute" in "minutes").
TimeUnits == << "minute", "minutes", "min", "hour", "hours", "hr", "hrs" >>

\* The first alternative of alts, in order, that occurs at position i of s
\* ignoring case; "" when none does.
FirstAlt(alts, s, i) ==
  LET first(ok) == IF ok = {} THEN "" ELSE alts[Least(ok)]
  IN first({ j \in 1..Len(alts) : OccursAtI(s, alts[j], i) })

\* (\d+)\s*(unit) at position i: the number, the unit and the position after
\* the match; len = 0 when it does not match there.
NumberAndUnit(s, i) ==
  LET groups(a, u, unit) ==
        IF a = 0 \/ unit = "" THEN [len |-> 0, num |-> "", unit |-> ""]
        ELSE [len |-> u + Len(unit) - i, num |-> SubSeq(s, i, i + a - 1), unit |-> unit]
      unitAt(a, u) == groups(a, u, FirstAlt(TimeUnits, s, u))
      number(a) == unitAt(a, i + a + SpaceRun(s, i + a))
  IN number(DigitRun(s, i))

\* TIME_PATTERNS[p] tried at position i (p = 1: range, 2: single, 3: contextual).
\* g1 and g2 are the groups match[1] and match[2] that the loop reads; unitText
\* is the unit the pattern matched, which is group 3 of the range pattern.
TimeMatchAt(p, s, i) ==
  LET none == [len |-> 0, g1 |-> "", g2 |-> "", unitText |-> ""]
      skipSpace(x) == x + SpaceRun(s, x)
      \* the match whose (\d+)\s*(unit) part o begins at position from; a is
      \* the length of the first number of a range
      ending(a, from, o) ==
        IF o.len = 0 THEN none
        ELSE [len |-> from + o.len - i,
              g1 |-> IF p = 1 THEN SubSeq(s, i, i + a - 1) ELSE o.num,
              g2 |-> IF p = 1 THEN o.num ELSE o.unit,
              unitText |-> o.unit]
      tail(a, from) == ending(a, from, NumberAndUnit(s, from))
      separator(a, sepAt, sep) ==
        IF a = 0 \/ sep = "" THEN none ELSE tail(a, skipSpace(sepAt + Len(sep)))
      range(a, sepAt) == separator(a, sepAt, FirstAlt(<< "to", "-" >>, s, sepAt))
      contextual(lead) == IF lead = "" THEN none ELSE tail(0, skipSpace(i + Len(lead)))
  IN CASE p = 1 -> range(DigitRun(s, i), skipSpace(i + DigitRun(s, i)))
       [] p = 2 -> tail(0, i)
       [] p = 3 -> contextual(FirstAlt(<< "for", "about", "approximately" >>, s, i))

\* One iteration of the exec loop (lines 787-800): the entry pushed for the
\* match m of pattern p at position i.  family and unitText are not fields of
\* the source's entry; they record which pattern and unit produced it.
TimeEntry(p, s, i, m) ==
  LET start == IF i - 20 > 1 THEN i - 20 ELSE 1
      end == IF i + m.len - 1 + 20 < Len(s) THEN i + m.len - 1 + 20 ELSE Len(s)
      entry(time, unit) ==
        [time |-> time,
         minutes |-> IF Includes(unit, "hour") THEN time * 60 ELSE time,
         context |-> ToLowerCase(SubSeq(s, start, end)),
         family |-> p, unitText |-> m.unitText]
  IN entry(ParseInt(m.g1), ToLowerCase(m.g2))

\* regex.exec in a loop with the g flag: all matches of pattern p in s from
\* position from on, left to right, each search resuming after the last match.
RECURSIVE ExecAll(_, _, _)
ExecAll(p, s, from) ==
  LET push(i, m) == << TimeEntry(p, s, i, m) >> \o ExecAll(p, s, i + m.len)
      exec(at) == IF at = {} THEN << >> ELSE push(Least(at), TimeMatchAt(p, s, Least(at)))
  IN exec({ i \in from..Len(s) : TimeMatchAt(p, s, i).len > 0 })

\* Lines 784-801: the matches of the three patterns, pattern by pattern.
CollectTimeMatches(instruction) ==
  ExecAll(1, instruction, 1) \o ExecAll(2, instruction, 1) \o ExecAll(3, instruction, 1)

PrepCues ==
  << "prep", "chop", "slice", "dice", "mix", "stir", "prepare", "cut", "mince", "marinate" >>

CookCues ==
  << "bake", "cook", "fry", "grill", "roast", "simmer", "boil", "steam", "broil" >>

\* !x for an optional number: undefined and 0 are falsy.
NotSet(x) == x = << >> \/ x[1] = 0

\* The assignment loop as it would be if a field, once set, were never
\* overwritten (each cue branch guarded by "not yet set").
RECURSIVE AssignTimesOnce(_, _, _, _)
AssignTimesOnce(matches, i, prepTime, cookTime) ==
  IF i > Len(matches) THEN [prepTime |-> prepTime, cookTime |-> cookTime]
  ELSE LET minutes == matches[i].minutes
           context == matches[i].context
       IN IF SomeIncluded(PrepCues, context)
          THEN AssignTimesOnce(matches, i + 1,
                               IF prepTime = << >> THEN << minutes >> ELSE prepTime, cookTime)
          ELSE IF SomeIncluded(CookCues, context) \/ (NotSet(prepTime) /\ NotSet(cookTime))
          THEN AssignTimesOnce(matches, i + 1, prepTime,
                               IF cookTime = << >> THEN << minutes >> ELSE cookTime)
          ELSE AssignTimesOnce(matches, i + 1, prepTime, cookTime)

\* Lines 804-820: the assignment loop from entry i on, with the current
\* values of prepTime and cookTime.
RECURSIVE AssignTimes(_, _, _, _)
AssignTimes(matches, i, prepTime, cookTime) ==
  IF i > Len(matches) THEN [prepTime |-> prepTime, cookTime |-> cookTime]
  ELSE LET minutes == matches[i].minutes
           context == matches[i].context
       IN IF SomeIncluded(PrepCues, context)
          THEN AssignTimes(matches, i + 1, << minutes >>, cookTime)
          ELSE IF SomeIncluded(CookCues, context)
          THEN AssignTimes(matches, i + 1, prepTime, << minutes >>)
          ELSE IF NotSet(prepTime) /\ NotSet(cookTime)
          THEN AssignTimes(matches, i + 1, prepTime, << minutes >>)
          ELSE AssignTimes(matches, i + 1, prepTime, cookTime)

----------------------------------------------------------------------------
\* InstructionParser.TEMPERATURE_PATTERNS

\* TEMPERATURE_PATTERNS[p] tried at position i: (\d+)\s*°?\s*[fF] for p = 1,
\* the same with [cC] for p = 2, (\d+)\s*degrees?\s*[fF] for p = 3 and with
\* [cC] for p = 4.  Gives the number and the matched text, len = 0 if no match.
TemperatureMatchAt(p, s, i) ==
  LET skipSpace(x) == x + SpaceRun(s, x)
      letter == IF p \in {1, 3} THEN "f" ELSE "c"
      scale(a, mark, y) ==
        IF a > 0 /\ (p <= 2 \/ mark > 0) /\ ToLowerCase(Char(s, y)) = letter
        THEN [len |-> y + 1 - i, g1 |-> SubSeq(s, i, i + a - 1), text |-> SubSeq(s, i, y)]
        ELSE [len |-> 0, g1 |-> "", text |-> ""]
      sign(a, x, mark) == scale(a, mark, skipSpace(x + mark))
      degrees(a, x) ==
        sign(a, x, IF p <= 2 THEN (IF Char(s, x) = "°" THEN 1 ELSE 0)
                   ELSE IF OccursAtI(s, "degrees", x) THEN 7
                   ELSE IF OccursAtI(s, "degree", x) THEN 6
                   ELSE 0)
      number(a) == degrees(a, skipSpace(i + a))
  IN number(DigitRun(s, i))

\* ExtractTemperature without the conversion of Celsius readings.
ExtractTemperatureUnconverted(instruction) ==
  LET at(p) == { i \in 1..Len(instruction) : TemperatureMatchAt(p, instruction, i).len > 0 }
      first(hit) ==
        IF hit = {} THEN << >>
        ELSE << ParseInt(TemperatureMatchAt(Least(hit), instruction,
                                            Least(at(Least(hit)))).g1) >>
  IN first({ p \in 1..4 : at(p) # {} })

\* Lines 822-834: the first pattern with a match supplies the temperature.
ExtractTemperature(instruction) ==
  LET at(p) == { i \in 1..Len(instruction) : TemperatureMatchAt(p, instruction, i).len > 0 }
      convert(m, temperature) ==
        IF Includes(ToLowerCase(m.text), "c")
        THEN \* Math.round(temperature * 9/5 + 32)
             << (temperature * 18 + 5) \div 10 + 32 >>
        ELSE << temperature >>
      read(m) == convert(m, ParseInt(m.g1))
      first(hit) ==
        IF hit = {} THEN << >>
        ELSE read(TemperatureMatchAt(Least(hit), instruction, Least(at(Least(hit)))))
  IN first({ p \in 1..4 : at(p) # {} })

\* What a call leaves behind: the exception (or "none"), the value returned
\* and, for parseInstruction, the local array timeMatches.
Returned(value, matches) == [thrown |-> "none", value |-> value, timeMatches |-> matches]

NoReturn == [none |-> TRUE]

Threw(exception) == [thrown |-> exception, value |-> NoReturn, timeMatches |-> << >>]

\* InstructionParser.parseInstruction: instructionStr.trim() is the first
\* statement, and it throws a TypeError unless instructionStr is a string.
parseInstruction(instructionStr, step) ==
  LET result(instruction, matches, times) ==
        Returned([step_number |-> step,
                  instruction |-> instruction,
                  prep_time |-> times.prepTime,
                  cook_time |-> times.cookTime,
                  temperature |-> ExtractTemperature(instruction)],
                 matches)
      assign(instruction, matches) ==
        result(instruction, matches, AssignTimes(matches, 1, << >>, << >>))
      parse(instruction) == assign(instruction, CollectTimeMatches(instruction))
  IN IF instructionStr.t # "string" THEN Threw("TypeError")
     ELSE parse(Trim(instructionStr.s))

----------------------------------------------------------------------------
\* RecipeAnalyzer.extractDietaryTags

plantBasedProteins ==
  << "tofu", "tempeh", "seitan", "lentils", "chickpeas", "garbanzo", "black beans",
     "kidney beans", "pinto beans", "navy beans", "lima beans", "edamame", "quinoa",
     "hemp seeds", "chia seeds", "nutritional yeast", "protein powder", "whey", "casein" >>

glutenContaining ==
  << "flour", "bread", "pasta", "wheat", "barley", "rye", "spaghetti", "penne", "rigatoni",
     "fettuccine", "linguine", "macaroni", "lasagna", "ravioli", "tortellini", "gnocchi",
     "ramen", "soba", "udon", "rice noodles", "vermicelli", "angel hair", "fusilli",
     "rotini", "ziti", "breadcrumbs", "panko", "croutons", "tortilla", "pita", "naan",
     "bagel", "muffin", "biscuit", "scone", "croissant", "baguette", "sourdough",
     "rye bread", "whole wheat", "multigrain", "sprouted", "gluten-free bread", "cornmeal",
     "polenta", "grits", "semolina", "farro", "spelt", "kamut", "amaranth", "teff",
     "sorghum", "triticale", "rye", "oats", "steel cut oats", "rolled oats", "instant oats",
     "granola", "muesli" >>

\* keywords.some(k => text.includes(k)) over the keywords that pass a filter:
\* those in the list only (only = TRUE) or those not in it (only = FALSE).
SomeFilteredIncluded(keywords, list, only, text) ==
  \E i \in 1..Len(keywords) : InList(list, keywords[i]) = only /\ Includes(text, keywords[i])

\* The meat check over protein_main alone, without the fish and seafood of
\* protein_source.
hasMeatIngredientsMainOnly(ingredientText) == SomeIncluded(protein_main, ingredientText)

hasMeatIngredients(ingredientText) ==
  \/ SomeIncluded(protein_main, ingredientText)
  \/ SomeFilteredIncluded(protein_source, plantBasedProteins, FALSE, ingredientText)

hasDairyIngredients(ingredientText) ==
  SomeIncluded(dairy \o << "egg", "eggs" >>, ingredientText)

hasGlutenIngredients(ingredientText) ==
  SomeFilteredIncluded(grain, glutenContaining, TRUE, ingredientText)

\* ingredients.filter(ing => ing && typeof ing === 'string' && ing.trim().length > 0)
RECURSIVE ValidIngredients(_)
ValidIngredients(ingredients) ==
  IF ingredients = << >> THEN << >>
  ELSE LET ing == Head(ingredients)
       IN (IF ~Falsy(ing) /\ ing.t = "string" /\ Len(Trim(ing.s)) > 0
           THEN << ing.s >> ELSE << >>) \o ValidIngredients(Tail(ingredients))

\* Array.prototype.join(' ')
RECURSIVE Join(_)
Join(strings) ==
  IF strings = << >> THEN ""
  ELSE IF Len(strings) = 1 THEN strings[1]
  ELSE strings[1] \o " " \o Join(Tail(strings))

\* The tag rules with vegan decided by the meat check alone.
TagsOfVeganIgnoringDairy(ingredientText) ==
  LET hasMeat == hasMeatIngredients(ingredientText)
      hasDairy == hasDairyIngredients(ingredientText)
      hasGluten == hasGlutenIngredients(ingredientText)
  IN (IF ~hasMeat THEN << "vegetarian" >> ELSE << >>)
     \o (IF ~hasMeat THEN << "vegan" >> ELSE << >>)
     \o (IF ~hasGluten THEN << "gluten-free" >> ELSE << >>)
     \o (IF ~hasDairy THEN << "dairy-free" >> ELSE << >>)

\* Lines 898-925: the four tag rules, applied to the joined ingredient text.
TagsOf(ingredientText) ==
  LET hasMeat == hasMeatIngredients(ingredientText)
      hasDairy == hasDairyIngredients(ingredientText)
      hasGluten == hasGlutenIngredients(ingredientText)
  IN (IF ~hasMeat THEN << "vegetarian" >> ELSE << >>)
     \o (IF ~hasMeat /\ ~hasDairy THEN << "vegan" >> ELSE << >>)
     \o (IF ~hasGluten THEN << "gluten-free" >> ELSE << >>)
     \o (IF ~hasDairy THEN << "dairy-free" >> ELSE << >>)

\* extractDietaryTags without the early return of lines 894-896.
extractDietaryTagsNoEarlyReturn(ingredients) ==
  TagsOf(ToLowerCase(Join(ValidIngredients(ingredients))))

extractDietaryTags(ingredients) ==
  LET validIngredients == ValidIngredients(ingredients)
  IN IF Len(validIngredients) = 0 THEN << >>
     ELSE TagsOf(ToLowerCase(Join(validIngredients)))

----------------------------------------------------------------------------
\* RecipeAnalyzer.analyzeDifficulty

advancedTechniques ==
  << "braise", "sous vide", "temper", "emulsify", "clarify", "confit", "brunoise",
     "julienne", "chiffonade", "flambé", "deglaze" >>

\* The text Array.prototype.join puts for one element: nothing for undefined
\* and null, the elements joined by commas for an array.
RECURSIVE JoinValues(_, _)
ElementText(v) ==
  CASE v.t \in {"string", "number"} -> v.s
    [] v.t = "array" -> JoinValues(v.l, ",")
    [] OTHER -> ""

\* Array.prototype.join(separator) over JavaScript values.
JoinValues(values, separator) ==
  IF values = << >> THEN ""
  ELSE IF Len(values) = 1 THEN ElementText(values[1])
  ELSE ElementText(values[1]) \o separator \o JoinValues(Tail(values), separator)

\* s.split(' ').length: one more than the number of spaces in s.
SplitLength(s) == Cardinality({ i \in 1..Len(s) : Char(s, i) = " " }) + 1

\* instructions.filter(i => i && typeof i === 'string')
RECURSIVE StringsOf(_)
StringsOf(values) ==
  IF values = << >> THEN << >>
  ELSE (IF Head(values).t = "string" /\ ~Falsy(Head(values)) THEN << Head(values).s >> ELSE << >>)
       \o StringsOf(Tail(values))

\* advancedTechniques.filter(technique => instructionText.includes(technique)).length
TechniqueCount(instructionText) ==
  Cardinality({ i \in 1..Len(advancedTechniques) : Includes(instructionText, advancedTechniques[i]) })

\* analyzeDifficulty with thresholds that are reached rather than exceeded.
analyzeDifficultyInclusive(ingredients, instructionList) ==
  LET level(score) == IF score >= 5 THEN "hard" ELSE IF score >= 2 THEN "medium" ELSE "easy"
      total(ingredientCount, instructionCount, totalWords, techniqueCount) ==
        level((IF ingredientCount >= 15 THEN 2 ELSE IF ingredientCount >= 8 THEN 1 ELSE 0)
              + (IF instructionCount >= 8 THEN 2 ELSE IF instructionCount >= 4 THEN 1 ELSE 0)
              + (IF totalWords >= 200 THEN 2 ELSE IF totalWords >= 100 THEN 1 ELSE 0)
              + techniqueCount)
  IN total(Len(ingredients), Len(instructionList),
           SplitLength(JoinValues(instructionList, " ")),
           TechniqueCount(ToLowerCase(Join(StringsOf(instructionList)))))

analyzeDifficulty(ingredients, instructionList) ==
  LET level(score) == IF score >= 5 THEN "hard" ELSE IF score >= 2 THEN "medium" ELSE "easy"
      total(ingredientCount, instructionCount, totalWords, techniqueCount) ==
        level((IF ingredientCount > 15 THEN 2 ELSE IF ingredientCount > 8 THEN 1 ELSE 0)
              + (IF instructionCount > 8 THEN 2 ELSE IF instructionCount > 4 THEN 1 ELSE 0)
              + (IF totalWords > 200 THEN 2 ELSE IF totalWords > 100 THEN 1 ELSE 0)
              + techniqueCount)
  IN total(Len(ingredients), Len(instructionList),
           SplitLength(JoinValues(instructionList, " ")),
           TechniqueCount(ToLowerCase(Join(StringsOf(instructionList)))))

----------------------------------------------------------------------------
\* RecipeAnalyzer.estimateCookingTimes.  The running minimum is an optional
\* number: the empty sequence is the initial value Infinity.

\* The update of a running value in which the latest time replaces it.
LatestTime(current, time) == IF NotSet(time) THEN current ELSE time

\* if (parsed.x) min = Math.min(min, parsed.x)
MinTime(current, time) ==
  IF NotSet(time) THEN current
  ELSE IF current = << >> \/ time[1] < current[1] THEN time
  ELSE current

\* Lines 994-998: the loop from instruction i on; a TypeError of
\* parseInstruction ends the call.
RECURSIVE EstimateLoop(_, _, _, _)
EstimateLoop(list, i, minPrepTime, minCookTime) ==
  LET next(parsed) ==
        IF parsed.thrown # "none" THEN Threw(parsed.thrown)
        ELSE EstimateLoop(list, i + 1, MinTime(minPrepTime, parsed.value.prep_time),
                          MinTime(minCookTime, parsed.value.cook_time))
  IN IF i > Len(list)
     THEN Returned([minPrepTime |-> minPrepTime, minCookTime |-> minCookTime], << >>)
     ELSE next(parseInstruction(list[i], 1))

Max(a, b) == IF a >= b THEN a ELSE b

estimateCookingTimes(instructionList) ==
  LET estimate(minPrepTime, minCookTime) ==
        IF minPrepTime = << >> /\ minCookTime = << >>
        THEN [prepTime |-> Max(5, Len(instructionList) * 2),
              cookTime |-> Max(10, Len(instructionList) * 3)]
        ELSE [prepTime |-> IF minPrepTime = << >> THEN 0 ELSE minPrepTime[1],
              cookTime |-> IF minCookTime = << >> THEN 0 ELSE minCookTime[1]]
      result(loop) ==
        IF loop.thrown # "none" THEN loop
        ELSE Returned(estimate(loop.value.minPrepTime, loop.value.minCookTime), << >>)
  IN result(EstimateLoop(instructionList, 1, << >>, << >>))

----------------------------------------------------------------------------
\* DataValidator.  A raw record is an object whose seven properties are
\* JavaScript values, undefined when the property is absent.

RawRecipe(title, description, ingredients, directions, link, source, site) ==
  [t |-> "object", title |-> title, description |-> description,
   ingredients |-> ingredients, directions |-> directions, link |-> link,
   source |-> source, site |-> site]

\* !x || !Array.isArray(x) || x.length === 0
NotAFilledArray(x) == Falsy(x) \/ x.t # "array" \/ Len(x.l) = 0

\* validateRecipe returning at the first rule that fails.
validateRecipeFailFast(recipe) ==
  LET report(errors) == Returned([isValid |-> errors = << >>, errors |-> errors], << >>)
  IN IF ~Falsy(recipe.title) /\ recipe.title.t # "string" THEN Threw("TypeError")
     ELSE IF Falsy(recipe.title) \/ Len(Trim(recipe.title.s)) = 0
     THEN report(<< "Recipe title is required" >>)
     ELSE IF NotAFilledArray(recipe.ingredients)
     THEN report(<< "At least one ingredient is required" >>)
     ELSE IF NotAFilledArray(recipe.directions)
     THEN report(<< "At least one instruction is required" >>)
     ELSE IF Len(recipe.title.s) > 100
     THEN report(<< "Recipe title is too long (max 100 characters)" >>)
     ELSE report(<< >>)

\* recipe.title.trim() is reached when the title is truthy, and throws a
\* TypeError when that value is not a string.
validateRecipe(recipe) ==
  LET report(errors) == Returned([isValid |-> errors = << >>, errors |-> errors], << >>)
  IN IF ~Falsy(recipe.title) /\ recipe.title.t # "string" THEN Threw("TypeError")
     ELSE report(
            (IF Falsy(recipe.title) \/ Len(Trim(recipe.title.s)) = 0
             THEN << "Recipe title is required" >> ELSE << >>)
            \o (IF NotAFilledArray(recipe.ingredients)
                THEN << "At least one ingredient is required" >> ELSE << >>)
            \o (IF NotAFilledArray(recipe.directions)
                THEN << "At least one instruction is required" >> ELSE << >>)
            \o (IF ~Falsy(recipe.title) /\ Len(recipe.title.s) > 100
                THEN << "Recipe title is too long (max 100 characters)" >> ELSE << >>))

\* Does x?.trim() throw: x is neither undefined nor null and has no trim method.
TrimThrows(x) == x.t \notin {"undefined", "null", "string"}

\* x?.trim() || '' for a value on which it does not throw.
TrimmedOrEmpty(x) == IF x.t = "string" THEN Trim(x.s) ELSE ""

\* Array.isArray(x) ? x : []
ArrayOrEmpty(x) == IF x.t = "array" THEN x.l ELSE << >>

cleanRecipeData(recipe) ==
  IF \/ TrimThrows(recipe.title) \/ TrimThrows(recipe.description)
     \/ TrimThrows(recipe.link) \/ TrimThrows(recipe.source) \/ TrimThrows(recipe.site)
  THEN Threw("TypeError")
  ELSE Returned([title |-> TrimmedOrEmpty(recipe.title),
                 description |-> TrimmedOrEmpty(recipe.description),
                 ingredients |-> ArrayOrEmpty(recipe.ingredients),
                 directions |-> ArrayOrEmpty(recipe.directions),
                 link |-> TrimmedOrEmpty(recipe.link),
                 source |-> TrimmedOrEmpty(recipe.source),
                 site |-> TrimmedOrEmpty(recipe.site)],
                << >>)

----------------------------------------------------------------------------
\* The calls that are checked.  The caller builds each argument from parts and
\* keeps the parts in made, so that a property can speak of the quantity, the
\* unit and the name an ingredient string was written with.

MaxWhole == 3

MaxPart == 2

MaxKeywords == 2

MaxIngredients == 3

MaxTime == 2

MaxStep == 2

MaxInstructions == 2

MaxPlainInstructions == 4

Parts(form, w, n, d, unit, name) ==
  [form |-> form, w |-> w, n |-> n, d |-> d, unit |-> unit, name |-> name]

Literal(text) == Parts("text", 0, 0, 1, "", text)

\* The quantity token of a built ingredient string.
QuantityText(parts) ==
  CASE parts.form = "integer" -> ToString(parts.w)
    [] parts.form = "decimal" -> ToString(parts.w) \o "." \o ToString(parts.n)
    [] parts.form = "fraction" -> ToString(parts.n) \o "/" \o ToString(parts.d)
    [] parts.form = "mixed" -> ToString(parts.w) \o " " \o ToString(parts.n) \o "/" \o ToString(parts.d)
    [] parts.form = "word" -> QuantityWords[parts.w]
    [] parts.form = "glued" -> ToString(parts.w)
    [] OTHER -> ""

\* "<quantity> <unit> <name>", without the unit when there is none; the glued
\* form writes the unit directly against the number ("500g ground beef").
IngredientText(parts) ==
  IF parts.form = "text" THEN parts.name
  ELSE IF parts.form = "glued" THEN QuantityText(parts) \o parts.unit \o " " \o parts.name
  ELSE QuantityText(parts) \o (IF parts.unit = "" THEN "" ELSE " " \o parts.unit) \o " " \o parts.name

\* The number a built quantity token denotes.
QuantityValue(parts) ==
  CASE parts.form = "integer" -> Num(parts.w, 1)
    [] parts.form = "decimal" -> Num(parts.w * 10 + parts.n, 10)
    [] parts.form = "fraction" -> Num(parts.n, parts.d)
    [] parts.form = "mixed" -> Num(parts.w * parts.d + parts.n, parts.d)
    [] OTHER -> NaN

\* Every key of the two tables of normalizeUnit.
UnitSynonyms ==
  { volumeMap[i][1] : i \in 1..Len(volumeMap) } \cup { weightMap[i][1] : i \in 1..Len(weightMap) }

CanonicalUnit(u) ==
  IF Lookup(volumeMap, u) # "" THEN Lookup(volumeMap, u) ELSE Lookup(weightMap, u)

QuantityShapes ==
  { Parts("integer", w, 0, 1, "", "") : w \in 1..MaxWhole }
  \cup { Parts("decimal", w, n, 10, "", "") : w \in 1..MaxWhole, n \in {5} }
  \cup { Parts("fraction", 0, n, d, "", "") : n \in 1..MaxPart, d \in 2..(MaxPart + 1) }
  \cup { Parts("mixed", w, n, d, "", "") : w \in 1..MaxWhole, n \in 1..MaxPart, d \in 2..(MaxPart + 1) }
  \cup { Parts("word", w, 0, 1, "", "") : w \in 1..Len(QuantityWords) }

\* Ordinary ingredient names; some begin with the letters of a unit abbreviation.
IngredientNames ==
  { "flour", "all-purpose flour", "sugar", "garlic", "milk", "mangoes", "green pepper",
    "ground beef", "eggs", "onion, diced" }

BuiltIngredients ==
  { Parts(q.form, q.w, q.n, q.d, u, name) :
      q \in QuantityShapes, u \in UnitSynonyms \cup {""}, name \in {"flour"} }
  \cup { Parts(q.form, q.w, q.n, q.d, u, name) :
      q \in QuantityShapes, u \in {"", "cups"}, name \in IngredientNames }
  \cup { Parts("glued", w, 0, 1, u, name) :
      w \in 1..MaxWhole, u \in {"g", "ml", "kg"}, name \in IngredientNames }

LiteralIngredients ==
  { "500g ground beef", "250ml milk", "2kg potatoes", "500 g ground beef",
    "1 c. firmly packed brown sugar", "2 1/2 cups all-purpose flour", "1/4 tsp salt",
    "salt to taste", "1 large onion, diced", "1/2 cup nuts (optional)", "2 cups",
    "2 figs, 100 g each", "1 can (14 oz) tomatoes", "0 cups flour", "0/4 cup sugar",
    "1 lb chicken breast", "2 carrots", "Garlic", "butter lettuce", "rice milk",
    "one cup sugar", "2 cups flour", "1/0 cup sugar", "0/0 cup sugar", "0.0 cups flour",
    "0 eggs", "", "   ", " \t ", "  2 cups flour  " }
  \cup IngredientNames

NonStrings == { JSUndefined, JSNull, JSNumber("0"), JSNumber("5"), JSArray(<< >>) }

\* Names for classifyIngredient: one keyword, or two keywords of any two
\* categories side by side (the first MaxKeywords of each list).
SampleKeywords ==
  UNION { { INGREDIENT_CLASSIFICATIONS[c][2][j] : j \in 1..MaxKeywords } :
            c \in 1..Len(INGREDIENT_CLASSIFICATIONS) }

\* Names without any keyword, with the cues of one or of several categories.
FallbackNames ==
  { "mystery meat", "meat spread", "Mystery Meat", "tuber", "  tuber  ", "root sauce",
    "leafy teriyaki", "dragonfruit", "tropical starch", "carb", "probiotic dip", "grease",
    "tallow", "herb dip", "essence", "kernel spread", "kernel dip", "teriyaki", "zzz" }

ClassifyNames ==
  SampleKeywords \cup { a \o " " \o b : a \in SampleKeywords, b \in SampleKeywords }
  \cup { "butter lettuce", "rice milk", "peanut butter", "Butter Lettuce", "water",
         "veggie mix", "xanthan gum" }
  \cup FallbackNames

TimeUnitWords == { "minute", "minutes", "min", "mins", "hour", "hours", "hr", "hrs" }

\* A verb with a cook cue, one with a prep cue, one with neither.
Verbs == { "Bake", "Chop", "Rest" }

\* More than twenty characters without a cue, so that the windows of the
\* mentions on its two sides do not reach across it.
LongGap == ", set it all aside, wait, and then "

OneMention ==
  { v \o " " \o ToString(n) \o sp \o u :
      v \in Verbs, n \in 0..MaxTime, sp \in {" ", ""}, u \in TimeUnitWords }
  \cup { v \o " " \o lead \o " " \o ToString(n) \o " " \o u :
      v \in Verbs, lead \in {"for", "for about", "approximately"}, n \in 1..MaxTime,
      u \in TimeUnitWords }
  \cup { v \o " " \o ToString(a) \o sep \o ToString(a + b) \o " " \o u :
      v \in Verbs, a \in 1..MaxTime, b \in 1..MaxTime, sep \in {"-", " to "},
      u \in TimeUnitWords }

TwoMentions ==
  { v1 \o " " \o ToString(n) \o " " \o u \o gap \o ToLowerCase(v2) \o " " \o ToString(n + k) \o " minutes" :
      v1 \in Verbs, v2 \in Verbs, n \in 0..MaxTime, k \in 1..MaxTime,
      u \in {"minutes", "hours"}, gap \in {" then ", LongGap} }

LiteralInstructions ==
  { "Bake for 30 minutes at 350&deg;F", "Simmer for 15-20 minutes", "Chop vegetables (5 minutes)",
    "Marinate for 2 hours, then cook for 45 minutes at 375&deg;F", "Bake at 180&deg;C for 25 minutes",
    "Preheat oven to 400 degrees", "Preheat oven to 400 degrees for 10 minutes",
    "Preheat oven to 350 degrees F", "Heat to 180 degrees C", "Heat oil in a pan",
    "Add 2 cups flour", "Mix 3 fresh eggs", "Stir, then simmer 10 minutes",
    "Heat 2 cups stock to 350&deg;F", "Stir, then simmer for 10 minutes",
    "", "   ", "  Bake 1 hour  " }

IngredientPool ==
  << JSString("2 cups flour"), JSString("1 cup sugar"), JSString("2 eggs"),
     JSString("1 cup milk"), JSString("1 lb chicken breast"), JSString("2 cups rice"),
     JSString("1 Salmon fillet"), JSString("   "), JSUndefined >>

\* All lists of at most n ingredients from the pool.
RECURSIVE IngredientLists(_)
IngredientLists(n) ==
  IF n = 0 THEN { << >> }
  ELSE IngredientLists(n - 1)
       \cup { Append(l, IngredientPool[i]) :
                l \in { x \in IngredientLists(n - 1) : Len(x) = n - 1 },
                i \in 1..Len(IngredientPool) }

\* A recipe built for analyzeDifficulty: n ingredients, k instructions with
\* words words in all, the last instruction beginning with a phrase that
\* names techniques distinct advanced techniques.
Recipe(n, k, words, techniques) ==
  [form |-> "recipe", ingredients |-> n, instructions |-> k, words |-> words,
   techniques |-> techniques]

\* n words separated by single spaces.
RECURSIVE Words(_)
Words(n) ==
  IF n <= 0 THEN "" ELSE IF n = 1 THEN "stir"
  ELSE Words(n \div 2) \o " " \o Words(n - n \div 2)

\* Opening phrases: the text, its number of words and the number of distinct
\* advanced techniques it names ("temperature" contains "temper").
Phrases ==
  { << "Whisk", 1, 0 >>, << "Braise", 1, 1 >>, << "braise, then braise", 3, 1 >>,
    << "Sous vide", 2, 1 >>, << "FLAMB&Eacute; and deglaze", 3, 2 >>,
    << "Julienne, confit, emulsify", 3, 3 >> }

\* Counts just below, at and just above the thresholds of analyzeDifficulty.
IngredientCounts == { 0, 8, 9, 15, 16 }

InstructionCounts == { 1, 4, 5, 8, 9 }

WordCounts == { 12, 100, 101, 200, 201 }

IngredientArray(n) == JSArray([i \in 1..n |-> JSString("1 tsp salt")])

\* k instructions with words words in all: k - 1 of one word and a last one
\* that opens with the phrase.
InstructionArray(k, words, phrase) ==
  JSArray([i \in 1..k |->
             IF i < k THEN JSString("stir")
             ELSE JSString(phrase[1] \o " " \o Words(words - (k - 1) - phrase[2]))])

LiteralRecipes ==
  { << << >>, << >> >>,
    << << JSString("salt") >>, << JSString("Mix  well"), JSUndefined, JSNumber("5") >> >>,
    << << JSString("beef") >>, << JSString("Set the temperature"), JSString("") >> >> }

InstructionPool ==
  << JSString("Bake 1 minutes"), JSString("Bake 2 minutes"), JSString("Chop 2 minutes"),
     JSString("Chop 1 minutes"), JSString("Chop 0 minutes"), JSString("Heat oil in a pan"),
     JSUndefined >>

\* All lists of at most n instructions from the pool.
RECURSIVE InstructionLists(_)
InstructionLists(n) ==
  IF n = 0 THEN { << >> }
  ELSE InstructionLists(n - 1)
       \cup { Append(l, InstructionPool[i]) :
                l \in { x \in InstructionLists(n - 1) : Len(x) = n - 1 },
                i \in 1..Len(InstructionPool) }

\* n instructions that mention no time.
PlainInstructions(n) == [i \in 1..n |-> JSString("Heat oil in a pan")]

\* n times the letter a.
RECURSIVE Letters(_)
Letters(n) ==
  IF n <= 0 THEN "" ELSE IF n = 1 THEN "a" ELSE Letters(n \div 2) \o Letters(n - n \div 2)

\* Titles: absent, null, empty, blank, ordinary, padded, of 100 and of 101
\* characters, of 101 characters of which two are padding, and not a string.
Titles ==
  { JSUndefined, JSNull, JSString(""), JSString("   "), JSString("Soup"), JSString(" Soup "),
    JSString(Letters(100)), JSString(Letters(101)), JSString("  " \o Letters(99)),
    JSNumber("5") }

ListFields ==
  { JSUndefined, JSNull, JSArray(<< >>), JSArray(<< JSString("1 cup rice") >>),
    JSString("1 cup rice") }

TextFields == { JSUndefined, JSString(" from the web "), JSNumber("0") }

RawRecipes ==
  { RawRecipe(title, text, ingredients, directions, JSUndefined, text, link) :
      title \in Titles, text \in TextFields, ingredients \in ListFields,
      directions \in ListFields, link \in { JSNull, JSString("http://x.test ") } }

\* s in upper case, and s with its first letter in upper case.
UpperChar(c) ==
  IF \E i \in 1..Len(LowerAlphabet) : SubSeq(LowerAlphabet, i, i) = c
  THEN LET i == CHOOSE j \in 1..Len(LowerAlphabet) : SubSeq(LowerAlphabet, j, j) = c
       IN SubSeq(UpperAlphabet, i, i)
  ELSE c

RECURSIVE ToUpperCase(_)
ToUpperCase(s) == IF s = "" THEN "" ELSE UpperChar(SubSeq(s, 1, 1)) \o ToUpperCase(Rest(s, 2))

Capitalized(s) == IF s = "" THEN "" ELSE UpperChar(SubSeq(s, 1, 1)) \o Rest(s, 2)

\* Tokens of no table: other units, padded units, and names of properties
\* of Object.prototype.
OtherTokens ==
  { "pinch", "Pinch", "can", "clove", "stick", "inch", "cm", " cup", "cup ", "cupful",
    "constructor", "Constructor", "__proto__", "toString", "valueOf" }

\* The arguments of normalizeUnit: every key of its tables in lower case, in
\* upper case and capitalized, the other tokens, the empty string and values
\* that are no strings.
UnitArguments ==
  { JSString(u) : u \in UnitSynonyms \cup { ToUpperCase(k) : k \in UnitSynonyms }
                         \cup { Capitalized(k) : k \in UnitSynonyms } \cup OtherTokens \cup {""} }
  \cup NonStrings

\* Every spelling of a metric unit that convertToImperial compares with.
MetricTokens == UNION { MetricConversions[i].tokens : i \in 1..Len(MetricConversions) }

\* The arguments of convertToImperial: a quantity with a metric spelling in
\* lower case, in upper case or capitalized, with another unit, with the
\* empty string or with a value that is no string.
ConversionArguments ==
  { [quantity |-> q, unit |-> u] :
      q \in { Num(0, 1), Num(1, 1), Num(1, 2), Num(250, 1), NaN },
      u \in { JSString(s) : s \in MetricTokens \cup { ToUpperCase(k) : k \in MetricTokens }
                                   \cup { Capitalized(k) : k \in MetricTokens }
                                   \cup { "cup", "oz", "lbs", "pinch", "inch", " g", "" } }
             \cup NonStrings }

Call(f, a, step, parts) ==
  [fn |-> f, arg |-> a, step |-> step, instructions |-> JSUndefined, made |-> parts]

Call2(f, a, b, parts) == [fn |-> f, arg |-> a, step |-> 0, instructions |-> b, made |-> parts]

Calls ==
  { Call("parseIngredient", JSString(IngredientText(m)), 0, m) : m \in BuiltIngredients }
  \cup { Call("parseIngredient", JSString(t), 0, Literal(t)) : t \in LiteralIngredients }
  \cup { Call("parseIngredient", v, 0, Literal("")) : v \in NonStrings }
  \cup { Call("classifyIngredient", JSString(t), 0, Literal(t)) : t \in ClassifyNames }
  \cup { Call("parseInstruction", JSString(t), s, Literal(t)) :
           t \in OneMention \cup TwoMentions \cup LiteralInstructions, s \in 1..MaxStep }
  \cup { Call("parseInstruction", v, s, Literal("")) : v \in NonStrings, s \in 1..MaxStep }
  \cup { Call("extractDietaryTags", JSArray(l), 0, Literal("")) :
           l \in IngredientLists(MaxIngredients) }
  \cup { Call2("analyzeDifficulty", IngredientArray(n), InstructionArray(k, w, p),
                Recipe(n, k, w, p[3])) :
           n \in IngredientCounts, k \in InstructionCounts, w \in WordCounts, p \in Phrases }
  \cup { Call("estimateCookingTimes", JSArray(l), 0, Literal("")) :
           l \in InstructionLists(MaxInstructions)
                  \cup { PlainInstructions(n) : n \in 0..MaxPlainInstructions } }
  \cup { Call(f, recipe, 0, Literal("")) :
           f \in {"validateRecipe", "cleanRecipeData"}, recipe \in RawRecipes }
  \cup { Call2("analyzeDifficulty", JSArray(r[1]), JSArray(r[2]), Literal("")) :
           r \in LiteralRecipes }
  \cup { Call("normalizeUnit", v, 0, Literal("")) : v \in UnitArguments }
  \cup { Call("convertToImperial", a, 0, Literal("")) : a \in ConversionArguments }

----------------------------------------------------------------------------
\* The state machine: a caller picks one call and the function runs once.

Init ==
  /\ \E c \in Calls :
       /\ fn = c.fn
       /\ arg = c.arg
       /\ stepNumber = c.step
       /\ instructions = c.instructions
       /\ made = c.made
  /\ pc = "call"
  /\ ret = NoReturn
  /\ thrown = "none"
  /\ timeMatches = << >>
  /\ lastIndex = ZeroIndexes
  /\ calls = 1

\* The call ends with the outcome and leaves the regexes at indexes.
FinishWith(outcome, indexes) ==
  /\ pc' = "done"
  /\ ret' = outcome.value
  /\ thrown' = outcome.thrown
  /\ timeMatches' = outcome.timeMatches
  /\ lastIndex' = indexes
  /\ UNCHANGED << fn, arg, stepNumber, instructions, made, calls >>

Finish(outcome) == FinishWith(outcome, lastIndex)

ParseIngredient ==
  /\ pc = "call" /\ fn = "parseIngredient"
  /\ LET end(result) == FinishWith(Returned(result.value, << >>), result.lastIndex)
     IN end(parseIngredientWith(arg, lastIndex))

ClassifyIngredient ==
  /\ pc = "call" /\ fn = "classifyIngredient"
  /\ Finish(Returned(classifyIngredient(arg.s), << >>))

ParseInstruction ==
  /\ pc = "call" /\ fn = "parseInstruction"
  /\ Finish(parseInstruction(Received(arg), stepNumber))

ExtractDietaryTags ==
  /\ pc = "call" /\ fn = "extractDietaryTags"
  /\ Finish(Returned(extractDietaryTags(arg.l), << >>))

AnalyzeDifficulty ==
  /\ pc = "call" /\ fn = "analyzeDifficulty"
  /\ Finish(Returned(analyzeDifficulty(arg.l, Received(instructions).l), << >>))

EstimateCookingTimes ==
  /\ pc = "call" /\ fn = "estimateCookingTimes"
  /\ Finish(estimateCookingTimes(arg.l))

ValidateRecipe ==
  /\ pc = "call" /\ fn = "validateRecipe"
  /\ Finish(validateRecipe(arg))

CleanRecipeData ==
  /\ pc = "call" /\ fn = "cleanRecipeData"
  /\ Finish(cleanRecipeData(arg))

\* Lines 696-698: a value that is no string gives "unknown", as the empty
\* string does.
NormalizeUnit ==
  /\ pc = "call" /\ fn = "normalizeUnit"
  /\ Finish(Returned(IF arg.t # "string" THEN "unknown" ELSE normalizeUnit(arg.s), << >>))

ConvertToImperial ==
  /\ pc = "call" /\ fn = "convertToImperial"
  /\ Finish(Returned(convertToImperial(arg.quantity, arg.unit), << >>))

Next ==
  \/ ParseIngredient
  \/ ClassifyIngredient
  \/ ParseInstruction
  \/ ExtractDietaryTags
  \/ AnalyzeDifficulty
  \/ EstimateCookingTimes
  \/ ValidateRecipe
  \/ CleanRecipeData
  \/ NormalizeUnit
  \/ ConvertToImperial

Spec == Init /\ [][Next]_vars

----------------------------------------------------------------------------
\* A caller that uses the parsers again and again: the static regexes are
\* the same objects in every call.

MaxCalls == 3

HistoryCalls ==
  { Call("parseIngredient", JSString(t), 0, Literal(t)) :
      t \in { "2 cups flour", "1 cup sugar", "sugar", "one cup sugar", "2 eggs",
              "a cup or 2 cups of milk", "2 large cans (14 oz) tomatoes", "1 1/2", "  " } }
  \cup { Call("parseIngredient", v, 0, Literal("")) : v \in {JSUndefined, JSNumber("5")} }
  \cup { Call("classifyIngredient", JSString(t), 0, Literal(t)) :
           t \in { "butter lettuce", "rice milk", "flour", "dragonfruit" } }
  \cup { Call("parseInstruction", JSString(t), 1, Literal(t)) :
           t \in { "Bake for 30 minutes at 350&deg;F", "Chop vegetables (5 minutes)",
                   "Stir, then simmer 10 minutes", "Heat oil in a pan" } }
  \cup { Call("parseInstruction", JSUndefined, 1, Literal("")) }

InitCalls ==
  /\ \E c \in HistoryCalls :
       /\ fn = c.fn
       /\ arg = c.arg
       /\ stepNumber = c.step
       /\ instructions = c.instructions
       /\ made = c.made
  /\ pc = "call"
  /\ ret = NoReturn
  /\ thrown = "none"
  /\ timeMatches = << >>
  /\ lastIndex = ZeroIndexes
  /\ calls = 1

\* The caller, having the outcome of one call, makes the next one.
CallAgain ==
  /\ pc = "done"
  /\ calls < MaxCalls
  /\ \E c \in HistoryCalls :
       /\ fn' = c.fn
       /\ arg' = c.arg
       /\ stepNumber' = c.step
       /\ instructions' = c.instructions
       /\ made' = c.made
  /\ pc' = "call"
  /\ ret' = NoReturn
  /\ thrown' = "none"
  /\ timeMatches' = << >>
  /\ calls' = calls + 1
  /\ UNCHANGED lastIndex

NextCalls ==
  \/ ParseIngredient
  \/ ClassifyIngredient
  \/ ParseInstruction
  \/ CallAgain

SpecCalls == InitCalls /\ [][NextCalls]_vars

----------------------------------------------------------------------------
\* Properties.  Done(f) holds after a call of f has returned normally.

Done(f) == pc = "done" /\ fn = f /\ thrown = "none"

NumericForms == { "integer", "decimal", "fraction", "mixed" }

\* C1: for every input "W N/D <rest>" parseIngredient returns the quantity
\* W + N/D ("1 1/2 cups flour" gives 1.5, "2 1/2 cups all-purpose flour" 2.5).
C1_MixedNumberIsWholePlusFraction ==
  Done("parseIngredient") =>
    /\ made.form = "mixed" => ret.quantity = << QuantityValue(made) >>
    /\ arg.s = "2 1/2 cups all-purpose flour" => ret.quantity = << Num(5, 2) >>

\* C2: a number written directly against a metric unit is parsed: "500g
\* ground beef" gives name "ground beef", quantity 500, unit "gram", category
\* protein_main; "250ml milk" gives 250 milliliter, "2kg potatoes" 2 kilogram;
\* and so for every "<W><g|ml|kg> <name>".
C2_MetricUnitAgainstNumber ==
  Done("parseIngredient") =>
    /\ arg.s = "500g ground beef" =>
         /\ ret.ingredient_name = "ground beef"
         /\ ret.quantity = << Num(500, 1) >>
         /\ ret.unit = << "gram" >>
         /\ ret.kind = "protein_main"
    /\ arg.s = "250ml milk" => ret.quantity = << Num(250, 1) >> /\ ret.unit = << "milliliter" >>
    /\ arg.s = "2kg potatoes" => ret.quantity = << Num(2, 1) >> /\ ret.unit = << "kilogram" >>
    /\ made.form = "glued" =>
         /\ ret.quantity = << QuantityValue(made) >>
         /\ ret.unit = << CanonicalUnit(made.unit) >>

\* C3: quantity round trip: for "<quantity> <unit> <name>" built from an
\* integer, decimal, simple fraction or mixed number and any unit synonym of
\* the normalization table, parseIngredient returns the original quantity and
\* the canonical unit of the synonym.
C3_QuantityRoundTrip ==
  (Done("parseIngredient") /\ made.form \in NumericForms /\ made.unit \in UnitSynonyms) =>
    /\ ret.quantity = << QuantityValue(made) >>
    /\ ret.unit = << CanonicalUnit(made.unit) >>

AllFourTags == << "vegetarian", "vegan", "gluten-free", "dairy-free" >>

\* C4 as stated: extractDietaryTags of a list with no usable ingredient (the
\* empty list included) returns all four tags.
C4_NoIngredientsGetAllTags ==
  (Done("extractDietaryTags") /\ ValidIngredients(arg.l) = << >>) => ret = AllFourTags

\* C4 as amended: extractDietaryTags of a list with no usable ingredient (the
\* empty list included) returns no tag at all; the four tags are returned
\* only for a list with a usable ingredient that has no meat, dairy or gluten
\* keyword.
C4_NoIngredientsGetNoTags ==
  Done("extractDietaryTags") =>
    /\ ValidIngredients(arg.l) = << >> => ret = << >>
    /\ ret = AllFourTags => ValidIngredients(arg.l) # << >>

C4_Witness ==
  /\ Done("extractDietaryTags")
  /\ arg.l # << >>
  /\ ValidIngredients(arg.l) = << >>
  /\ ret = << >>

\* The entries of timeMatches that the loop routes by a cue: to prepTime (a
\* prep cue in the window), to cookTime (a cook cue and no prep cue), and the
\* entries without any cue.
PrepEntries == { i \in 1..Len(timeMatches) : SomeIncluded(PrepCues, timeMatches[i].context) }

CookEntries ==
  { i \in 1..Len(timeMatches) :
      /\ ~SomeIncluded(PrepCues, timeMatches[i].context)
      /\ SomeIncluded(CookCues, timeMatches[i].context) }

PlainEntries == (1..Len(timeMatches)) \ (PrepEntries \cup CookEntries)

First(S) == CHOOSE i \in S : \A j \in S : i <= j

Last(S) == CHOOSE i \in S : \A j \in S : i >= j

C6_EveryMatchConvertedToMinutes ==
  Done("parseInstruction") =>
    \A i \in 1..Len(timeMatches) :
      /\ timeMatches[i].unitText \in {"hour", "hours", "hr", "hrs"} =>
           timeMatches[i].minutes = 60 * timeMatches[i].time
      /\ timeMatches[i].unitText \in {"minute", "minutes", "min"} =>
           timeMatches[i].minutes = timeMatches[i].time

\* C7: parseInstruction never throws: for a non-string argument and for an
\* empty or whitespace-only string it returns the fully-default result (empty
\* text, no prep time, cook time or temperature, the given step number).
C7_ParseInstructionNeverThrows ==
  (pc = "done" /\ fn = "parseInstruction" /\ (arg.t # "string" \/ Trim(arg.s) = "")) =>
    /\ thrown = "none"
    /\ ret = [step_number |-> stepNumber, instruction |-> "", prep_time |-> << >>,
              cook_time |-> << >>, temperature |-> << >>]

\* Does name contain a keyword of the category, whatever the order of the lists?
HasKeyword(category, name) ==
  \E c \in 1..Len(INGREDIENT_CLASSIFICATIONS) :
    /\ INGREDIENT_CLASSIFICATIONS[c][1] = category
    /\ SomeIncluded(INGREDIENT_CLASSIFICATIONS[c][2], name)

\* kind is the first category of order that has a keyword in name.
FirstInOrder(order, name, kind) ==
  \E c \in 1..Len(order) :
    /\ order[c] = kind
    /\ HasKeyword(kind, name)
    /\ \A e \in 1..(c - 1) : ~HasKeyword(order[e], name)

StatedOrder ==
  << "protein_main", "protein_source", "vegetable", "grain", "dairy", "fat", "spice",
     "fruit", "nuts_seeds", "condiments" >>

DeclaredOrder ==
  << "protein_main", "protein_source", "dairy", "vegetable", "grain", "fat", "spice",
     "fruit", "nuts_seeds", "condiments" >>

ClassifiedName == Trim(ToLowerCase(arg.s))

\* C8 as stated: the exact-keyword step visits the categories in the order
\* protein_main, protein_source, vegetable, grain, dairy, fat, spice, fruit,
\* nuts_seeds, condiments and returns the first with a keyword in the name, so
\* "butter lettuce" is vegetable and "rice milk" is grain, not dairy.
C8_StatedCategoryOrder ==
  Done("classifyIngredient") =>
    /\ (\E c \in 1..Len(StatedOrder) : HasKeyword(StatedOrder[c], ClassifiedName)) =>
         FirstInOrder(StatedOrder, ClassifiedName, ret)
    /\ arg.s = "butter lettuce" => ret = "vegetable"
    /\ arg.s = "rice milk" => ret = "grain"

\* C8 as amended: the exact-keyword step visits the categories in the order
\* protein_main, protein_source, dairy, vegetable, grain, fat, spice, fruit,
\* nuts_seeds, condiments (dairy before vegetable and grain) and returns the
\* first with a keyword in the lowercased name, so "butter lettuce" and "rice
\* milk" are both classified dairy.
C8_DeclaredCategoryOrder ==
  Done("classifyIngredient") =>
    /\ (\E c \in 1..Len(DeclaredOrder) : HasKeyword(DeclaredOrder[c], ClassifiedName)) =>
         FirstInOrder(DeclaredOrder, ClassifiedName, ret)
    /\ arg.s = "butter lettuce" => ret = "dairy"
    /\ arg.s = "rice milk" => ret = "dairy"

C8_Witness ==
  /\ Done("classifyIngredient")
  /\ HasKeyword("vegetable", ClassifiedName)
  /\ HasKeyword("dairy", ClassifiedName)
  /\ ret = "dairy"

\* Does s contain a complete unit token: a match of one of the six families
\* that are delimited by word boundaries?
HasUnitToken(s) == \E p \in 1..(Len(UNIT_PATTERNS) - 1) : UnitMatch(p, s) # ""

\* C9: a unit is reported only for a complete unit token: when the text that
\* is searched (the remainder after the quantity, or the whole string) is an
\* ordinary name without one, such as "garlic", "milk", "2 mangoes" or
\* "1 green pepper", the unit is absent and the name is kept whole.
C9_NoUnitWithoutUnitToken ==
  (/\ Done("parseIngredient")
   /\ made.form \in NumericForms \cup {"text"}
   /\ made.unit = ""
   /\ made.name \in IngredientNames
   /\ ~HasUnitToken(made.name)) =>
    /\ ret.unit = << >>
    /\ ret.ingredient_name = made.name

\* C10: a spelled-out quantity word at the head (one..ten, half, quarter,
\* third) followed by text yields a quantity: "one cup sugar" has a quantity,
\* unit "cup" and name "sugar".
C10_WordQuantityIsPresent ==
  Done("parseIngredient") =>
    /\ made.form = "word" => ret.quantity # << >>
    /\ arg.s = "one cup sugar" =>
         ret.quantity # << >> /\ ret.unit = << "cup" >> /\ ret.ingredient_name = "sugar"

\* Is every character of s white space (the empty string included)?
Blank(s) == \A i \in 1..Len(s) : IsSpace(Char(s, i))

\* C11: for an empty, whitespace-only or non-string argument parseIngredient
\* returns, without throwing, the fully-default result: name "Unknown
\* ingredient", no quantity, no unit, category other, not optional, sort order 0.
C11_InvalidIngredientGivesDefault ==
  (pc = "done" /\ fn = "parseIngredient" /\ (arg.t # "string" \/ Blank(arg.s))) =>
    /\ thrown = "none"
    /\ ret = [ingredient_name |-> "Unknown ingredient", quantity |-> << >>, unit |-> << >>,
              kind |-> "other", is_optional |-> FALSE, sort_order |-> 0]

C11_Witness ==
  /\ Done("parseIngredient")
  /\ arg.t = "string" /\ Len(arg.s) > 0 /\ Blank(arg.s)
  /\ ret.ingredient_name = "Unknown ingredient"

\* C12: the name returned by parseIngredient is never empty: when stripping
\* the quantity and the unit token leaves nothing ("2 cups") it is "Unknown
\* ingredient".  Quantity and unit are independent: each of the four
\* combinations of present and absent occurs for some input.
C12_NameIsNeverEmpty ==
  Done("parseIngredient") =>
    /\ Len(ret.ingredient_name) > 0
    /\ ~Blank(ret.ingredient_name)
    /\ arg.s = "2 cups" =>
         /\ ret.ingredient_name = "Unknown ingredient"
         /\ ret.quantity = << Num(2, 1) >>
         /\ ret.unit = << "cup" >>

C12_Witness ==
  /\ Done("parseIngredient")
  /\ arg.s = "2 cups"
  /\ ret.ingredient_name = "Unknown ingredient"

\* The four combinations of C12, each a state that some call reaches.
C12_QuantityAndUnit ==
  Done("parseIngredient") /\ arg.s = "2 cups flour" /\ ret.quantity # << >> /\ ret.unit # << >>

C12_QuantityOnly ==
  Done("parseIngredient") /\ arg.s = "2 carrots" /\ ret.quantity # << >> /\ ret.unit = << >>

C12_UnitOnly ==
  Done("parseIngredient") /\ arg.s = "one cup sugar" /\ ret.quantity = << >> /\ ret.unit # << >>

C12_NeitherQuantityNorUnit ==
  Done("parseIngredient") /\ arg.s = "sugar" /\ ret.quantity = << >> /\ ret.unit = << >>
\* C13: the output of extractDietaryTags contains vegan if and only if it
\* contains both vegetarian and dairy-free, for every ingredient list; the
\* list "2 cups flour", "1 cup sugar", "2 eggs" yields exactly vegetarian.
C13_VeganIffVegetarianAndDairyFree ==
  Done("extractDietaryTags") =>
    /\ InList(ret, "vegan") <=> (InList(ret, "vegetarian") /\ InList(ret, "dairy-free"))
    /\ arg.l = << JSString("2 cups flour"), JSString("1 cup sugar"), JSString("2 eggs") >> =>
         ret = << "vegetarian" >>

C13_Witness ==
  /\ Done("extractDietaryTags")
  /\ arg.l = << JSString("2 cups flour"), JSString("1 cup sugar"), JSString("2 eggs") >>
  /\ ret = << "vegetarian" >>
\* Does the list element e contain a meat keyword: a keyword of protein_main,
\* or one of protein_source that is not a plant-based protein?
MeatIngredient(e) ==
  /\ e.t = "string"
  /\ \/ \E i \in 1..Len(protein_main) : Includes(ToLowerCase(e.s), protein_main[i])
     \/ \E i \in 1..Len(protein_source) :
          /\ ~InList(plantBasedProteins, protein_source[i])
          /\ Includes(ToLowerCase(e.s), protein_source[i])

Front(l) == SubSeq(l, 1, Len(l) - 1)

\* The call was extractDietaryTags(L + [m]) with no meat keyword in L and one in m.
MeatAddedLast ==
  /\ Done("extractDietaryTags")
  /\ arg.l # << >>
  /\ MeatIngredient(arg.l[Len(arg.l)])
  /\ \A i \in 1..(Len(arg.l) - 1) : ~MeatIngredient(arg.l[i])

\* C14: dietary tag monotonicity: for a list L without a meat keyword and an
\* ingredient m with one, extractDietaryTags(L + [m]) contains neither
\* vegetarian nor vegan, and no tag among them that extractDietaryTags(L) lacked.
C14_MeatRemovesVegetarianAndVegan ==
  MeatAddedLast =>
    /\ ~InList(ret, "vegetarian")
    /\ ~InList(ret, "vegan")
    /\ \A tag \in {"vegetarian", "vegan"} :
         InList(ret, tag) => InList(extractDietaryTags(Front(arg.l)), tag)

C14_Witness ==
  /\ MeatAddedLast
  /\ arg.l[Len(arg.l)] = JSString("1 Salmon fillet")
  /\ InList(extractDietaryTags(Front(arg.l)), "vegan")
  /\ ~InList(ret, "vegetarian")
\* 2 points above the high threshold, 1 above the low one, else none.
Points(count, high, low) == IF count > high THEN 2 ELSE IF count > low THEN 1 ELSE 0

ReferenceScore(recipe) ==
  Points(recipe.ingredients, 15, 8) + Points(recipe.instructions, 8, 4)
  + Points(recipe.words, 200, 100) + recipe.techniques

ReferenceDifficulty(score) ==
  IF score >= 5 THEN "hard" ELSE IF score >= 2 THEN "medium" ELSE "easy"

\* C15: analyzeDifficulty equals the reference scoring: 2 points for more
\* than 15 ingredients, else 1 for more than 8; 2 for more than 8 instructions,
\* else 1 for more than 4; 2 for more than 200 words in the instructions, else
\* 1 for more than 100; 1 per distinct advanced technique named; hard from 5
\* points, medium from 2, else easy.  16 ingredients and 9 instructions of
\* more than 200 words with "braise" are hard; two empty lists are easy.
C15_DifficultyEqualsReferenceScore ==
  Done("analyzeDifficulty") =>
    /\ made.form = "recipe" => ret = ReferenceDifficulty(ReferenceScore(made))
    /\ (made.form = "recipe" /\ made.ingredients = 16 /\ made.instructions = 9
        /\ made.words > 200 /\ made.techniques >= 1) => ret = "hard"
    /\ (arg.l = << >> /\ instructions.l = << >>) => ret = "easy"

\* Exactly 15 ingredients count 1 point: with 5 instructions, 101 words and
\* one technique the score is 4.
C15_Witness ==
  /\ Done("analyzeDifficulty")
  /\ made.form = "recipe"
  /\ made.ingredients = 15 /\ made.instructions = 5 /\ made.words = 101
  /\ made.techniques = 1
  /\ Len(arg.l) = 15 /\ Len(instructions.l) = 5
  /\ ret = "medium"
\* The nonzero prep times and cook times that parseInstruction finds in the
\* instructions of the list, each parsed on its own.
PrepTimesOf(list) ==
  { parseInstruction(list[i], 1).value.prep_time[1] :
      i \in { j \in 1..Len(list) : ~NotSet(parseInstruction(list[j], 1).value.prep_time) } }

CookTimesOf(list) ==
  { parseInstruction(list[i], 1).value.cook_time[1] :
      i \in { j \in 1..Len(list) : ~NotSet(parseInstruction(list[j], 1).value.cook_time) } }

Smallest(S) == CHOOSE x \in S : \A y \in S : x <= y

C16_FallbackWitness ==
  /\ Done("estimateCookingTimes")
  /\ Len(arg.l) = 4
  /\ ret = [prepTime |-> 8, cookTime |-> 12]
\* The error of each rule that the record in arg violates.
ViolatedRules ==
  (IF arg.title.t \in {"undefined", "null"} \/ (arg.title.t = "string" /\ Blank(arg.title.s))
   THEN { "Recipe title is required" } ELSE {})
  \cup (IF arg.ingredients.t # "array" \/ arg.ingredients.l = << >>
        THEN { "At least one ingredient is required" } ELSE {})
  \cup (IF arg.directions.t # "array" \/ arg.directions.l = << >>
        THEN { "At least one instruction is required" } ELSE {})
  \cup (IF arg.title.t = "string" /\ Len(arg.title.s) > 100
        THEN { "Recipe title is too long (max 100 characters)" } ELSE {})

\* C17: validateRecipe is not fail-fast: it checks all four rules (title
\* present and not blank, ingredients a non-empty list, directions a non-empty
\* list, title of at most 100 characters) and reports exactly one error per
\* violated rule; isValid is true exactly when there is no error; a record
\* without title and without ingredients gets at least two distinct errors.
C17_EveryViolatedRuleIsReported ==
  Done("validateRecipe") =>
    /\ { ret.errors[i] : i \in 1..Len(ret.errors) } = ViolatedRules
    /\ Len(ret.errors) = Cardinality(ViolatedRules)
    /\ ret.isValid <=> (ret.errors = << >>)
    /\ (arg.title.t = "undefined" /\ arg.ingredients.t = "undefined") =>
         Cardinality({ ret.errors[i] : i \in 1..Len(ret.errors) }) >= 2

C17_Witness ==
  /\ Done("validateRecipe")
  /\ arg.title.t = "undefined" /\ arg.ingredients.t = "undefined"
  /\ arg.directions.t = "array" /\ arg.directions.l # << >>
  /\ ret.errors = << "Recipe title is required", "At least one ingredient is required" >>
  /\ ~ret.isValid

\* C18: for every raw record, whatever the types of its fields, cleanRecipeData
\* returns (it does not throw) a record whose text fields title, description,
\* link, source and site are trimmed strings, "" when absent, and whose list
\* fields ingredients and directions are arrays, empty when the input value
\* is not an array.
C18_CleanRecipeDataAlwaysReturns ==
  (pc = "done" /\ fn = "cleanRecipeData") =>
    /\ thrown = "none"
    /\ \A text \in { ret.title, ret.description, ret.link, ret.source, ret.site } :
         Trim(text) = text
    /\ arg.title.t \in {"undefined", "null"} => ret.title = ""
    /\ arg.ingredients.t # "array" => ret.ingredients = << >>
    /\ arg.directions.t # "array" => ret.directions = << >>
\* The entries that set cookMinutes when a mention without a cue counts
\* only if no earlier entry has set a field: an entry with a cook cue, and
\* the first entry when it has no cue.
CookSetters == CookEntries \cup (PlainEntries \cap {1})

\* C19: a time mention without a prep or cook cue in its window is assigned
\* to cookMinutes when no earlier match of the call has set prepMinutes or
\* cookMinutes, and is discarded otherwise, leaving both fields as they were.
C19_CuelessMentionOnlyWhenNothingSet ==
  Done("parseInstruction") =>
    /\ ret.prep_time = (IF PrepEntries = {} THEN << >>
                        ELSE << timeMatches[Last(PrepEntries)].minutes >>)
    /\ ret.cook_time = (IF CookSetters = {} THEN << >>
                        ELSE << timeMatches[Last(CookSetters)].minutes >>)

\* C20: for a range "A-B <unit>" or "A to B <unit>" parseInstruction records
\* the average of A and B: "Simmer for 15-20 minutes" gives cook time 17.5,
\* and "Bake A-B minutes" gives (A + B) / 2.
C20_RangeIsAveraged ==
  Done("parseInstruction") =>
    /\ arg.s = "Simmer for 15-20 minutes" =>
         ret.cook_time # << >> /\ 2 * ret.cook_time[1] = 35
    /\ \A a \in 1..MaxTime, b \in 1..MaxTime, sep \in {"-", " to "} :
         arg.s = "Bake " \o ToString(a) \o sep \o ToString(a + b) \o " minutes" =>
           ret.cook_time # << >> /\ 2 * ret.cook_time[1] = a + (a + b)

----------------------------------------------------------------------------
\* Temperature

\* The text parseInstruction works on: the argument as received, trimmed.
InstructionText == Trim(Characters(arg.s))

\* The positions at which temperature pattern p matches the instruction.
TemperatureHits(p) ==
  { i \in 1..Len(InstructionText) : TemperatureMatchAt(p, InstructionText, i).len > 0 }

\* The temperature patterns that match somewhere, 1 = bare Fahrenheit,
\* 2 = bare Celsius, 3 = "degrees F", 4 = "degrees C".
MatchingPatterns == { p \in 1..4 : TemperatureHits(p) # {} }

\* The number captured by the leftmost match of pattern p.
CapturedNumber(p) ==
  ParseInt(TemperatureMatchAt(p, InstructionText, Least(TemperatureHits(p))).g1)

\* r = round(c * 9 / 5 + 32), in tenths: r - 0.5 <= c * 1.8 + 32 < r + 0.5.
IsRoundedFahrenheit(r, c) == 10 * r - 5 <= 18 * c + 320 /\ 18 * c + 320 < 10 * r + 5

StandaloneScale(p, i) ==
  LET after(m) == i + m.len > Len(InstructionText) \/ ~IsWordChar(Char(InstructionText, i + m.len))
  IN after(TemperatureMatchAt(p, InstructionText, i))

\* C28: a temperature is returned only when the instruction holds a
\* temperature expression, a number followed by °F or °C, a standalone F or
\* C, or "degrees F" / "degrees C"; "Add 2 cups flour", "Mix 3 fresh eggs"
\* and "Preheat oven to 400 degrees for 10 minutes" have no temperature.
C28_TemperatureOnlyFromExpression ==
  Done("parseInstruction") =>
    /\ ret.temperature # << >> =>
         \E p \in 1..4 : \E i \in TemperatureHits(p) : StandaloneScale(p, i)
    /\ arg.s \in { "Add 2 cups flour", "Mix 3 fresh eggs",
                   "Preheat oven to 400 degrees for 10 minutes" } =>
         ret.temperature = << >>

----------------------------------------------------------------------------
\* Unit normalization and conversion

\* The canonical name the tables of normalizeUnit give for the key u; "" when
\* u is a key of neither table.
TableEntry(u) ==
  IF OwnProperty(volumeMap, u) # "" THEN OwnProperty(volumeMap, u)
  ELSE OwnProperty(weightMap, u)

\* C22: normalizeUnit maps every key of its tables, in any letter case, to
\* the canonical name of its unit ("c", "c.", "cups" to "cup", "tbsp" to
\* "tablespoon", "g", "grams" to "gram"), maps a canonical name to itself, so
\* that normalizing the result again changes nothing, and returns a token
\* that is in neither table exactly as given.
C22_NormalizeUnitCanonicalOrUnchanged ==
  (Done("normalizeUnit") /\ arg.t = "string" /\ arg.s # "") =>
    /\ TableEntry(ToLowerCase(arg.s)) # "" =>
         /\ ret = TableEntry(ToLowerCase(arg.s))
         /\ normalizeUnit(ret) = ret
    /\ TableEntry(ToLowerCase(arg.s)) = "" => ret = arg.s
    /\ arg.s \in {"c", "c.", "cups", "CUPS"} => ret = "cup"
    /\ arg.s \in {"tbsp", "Tbsp"} => ret = "tablespoon"
    /\ arg.s \in {"g", "grams"} => ret = "gram"

\* The same property away from the names of Object.prototype's properties.
C22_HoldsForOrdinaryTokens ==
  (Done("normalizeUnit") /\ arg.t = "string" /\ arg.s # ""
     /\ OwnProperty(ObjectPrototype, ToLowerCase(arg.s)) = "") =>
    /\ TableEntry(ToLowerCase(arg.s)) # "" =>
         ret = TableEntry(ToLowerCase(arg.s)) /\ normalizeUnit(ret) = ret
    /\ TableEntry(ToLowerCase(arg.s)) = "" => ret = arg.s

\* The conversions as the specification lists them: the spellings of a
\* metric unit, the digits of the factor, its number of decimals and the
\* imperial unit; 1 g is 0.035274 oz, 1 kg 2.20462 lbs, 1 ml 0.00422675 cups,
\* 1 l 4.22675 cups, 1 cm 0.393701 inches, 1 m 3.28084 feet.
ReferenceConversions ==
  { << {"ml", "milliliter", "milliliters"}, 422675, 8, "cups" >>,
    << {"l", "liter", "liters", "litre", "litres"}, 422675, 5, "cups" >>,
    << {"cl", "centiliter", "centiliters"}, 422675, 7, "cups" >>,
    << {"dl", "deciliter", "deciliters"}, 422675, 6, "cups" >>,
    << {"g", "gram", "grams"}, 35274, 6, "oz" >>,
    << {"kg", "kilogram", "kilograms"}, 220462, 5, "lbs" >>,
    << {"mg", "milligram", "milligrams"}, 35274, 9, "oz" >>,
    << {"cm", "centimeter", "centimeters"}, 393701, 6, "inches" >>,
    << {"mm", "millimeter", "millimeters"}, 393701, 7, "inches" >>,
    << {"m", "meter", "meters", "metre", "metres"}, 328084, 5, "feet" >> }

ReferenceTokens == UNION { c[1] : c \in ReferenceConversions }

\* A metric spelling in any letter case is converted by the factor of its
\* unit, whichever spelling it is.
MetricIsConverted ==
  \A c \in ReferenceConversions :
    (arg.unit.t = "string" /\ ToLowerCase(arg.unit.s) \in c[1]) =>
      ret = [quantity |-> Multiply(arg.quantity, Num(c[2], Pow10(c[3]))),
             unit |-> JSString(c[4])]

\* parseIngredient returns the metric unit it read, under its canonical name,
\* and the quantity as written.
ParsingDoesNotConvert ==
  Done("parseIngredient") =>
    /\ (made.unit \in ReferenceTokens /\ ret.unit # << >>) =>
         ret.unit[1] \notin {"cups", "oz", "lbs", "inches", "feet"}
    /\ arg.s = "2 g flour" => ret.quantity = << Num(2, 1) >> /\ ret.unit = << "gram" >>
    /\ arg.s = "3 ml flour" =>
         ret.quantity = << Num(3, 1) >> /\ ret.unit = << "milliliter" >>

\* C23 as stated: convertToImperial multiplies the quantity by the fixed
\* ratio of the metric unit and returns the imperial unit, the same for every
\* spelling in any letter case; for every unit string that is no metric
\* token it returns quantity and unit unchanged; parseIngredient never
\* converts.
C23_EveryOtherUnitUnchanged ==
  /\ Done("convertToImperial") =>
       /\ MetricIsConverted
       /\ (arg.unit.t = "string" /\ ToLowerCase(arg.unit.s) \notin ReferenceTokens) =>
            ret = [quantity |-> arg.quantity, unit |-> arg.unit]
  /\ ParsingDoesNotConvert

\* C23, amended: as above, but only a non-empty unit that is no metric token
\* comes back unchanged; for the empty string the quantity is unchanged and
\* the unit returned is "unknown".
C23_OtherUnitUnchangedEmptyUnknown ==
  /\ Done("convertToImperial") =>
       /\ MetricIsConverted
       /\ (arg.unit.t = "string" /\ arg.unit.s # ""
             /\ ToLowerCase(arg.unit.s) \notin ReferenceTokens) =>
            ret = [quantity |-> arg.quantity, unit |-> arg.unit]
       /\ arg.unit = JSString("") =>
            ret = [quantity |-> arg.quantity, unit |-> JSString("unknown")]
  /\ ParsingDoesNotConvert

\* 250 GRAMS are 8.8185 oz.
C23_Witness ==
  /\ Done("convertToImperial")
  /\ arg = [quantity |-> Num(250, 1), unit |-> JSString("GRAMS")]
  /\ ret = [quantity |-> Num(88185, 10000), unit |-> JSString("oz")]

----------------------------------------------------------------------------
\* History

\* What the call of the state returns when it is the first call made after
\* the module is loaded.
FirstCallOutcome ==
  CASE fn = "parseIngredient" ->
         Returned(parseIngredientWith(arg, ZeroIndexes).value, << >>)
    [] fn = "classifyIngredient" -> Returned(classifyIngredient(arg.s), << >>)
    [] fn = "parseInstruction" -> parseInstruction(Received(arg), stepNumber)

\* C24: after any sequence of earlier calls, parseIngredient, the
\* classification of a name and parseInstruction end as a first call with
\* the same arguments does (same value returned, same exception), and the
\* global-flag unit regexes carry no match position into the next call.
C24_ResultIndependentOfHistory ==
  /\ pc = "done" =>
       /\ ret = FirstCallOutcome.value
       /\ thrown = FirstCallOutcome.thrown
  /\ lastIndex = ZeroIndexes

\* A third call finds the unit of "1 cup sugar" where a first call finds it.
C24_Witness ==
  /\ Done("parseIngredient")
  /\ calls = 3
  /\ arg.s = "1 cup sugar"
  /\ ret.unit = << "cup" >>

----------------------------------------------------------------------------
\* The unit search of parseIngredient

\* The trimmed argument of parseIngredient.
TrimmedArgument == Trim(arg.s)

\* The quantity patterns that match the trimmed argument.
MatchingQuantityPatterns == { k \in 1..5 : QuantityMatch(k, TrimmedArgument).ok }

\* The text in which the unit that parseIngredient returns was searched:
\* the rest after the quantity token, or the whole trimmed argument when no
\* quantity pattern matches.
SearchedText ==
  IF MatchingQuantityPatterns = {} THEN TrimmedArgument
  ELSE Trim(QuantityMatch(Least(MatchingQuantityPatterns), TrimmedArgument).rest)

\* The families of UNIT_PATTERNS that match somewhere in the searched text.
MatchingFamilies == { p \in 1..Len(UNIT_PATTERNS) : UnitMatch(p, SearchedText) # "" }

\* The positions at which family p matches the searched text.
FamilyPositions(p) ==
  { i \in 1..Len(SearchedText) :
      UnitMatchAt(p, SearchedText, ToLowerCase(SearchedText), i) # "" }

\* The searched text without the token that family p matches at position i.
WithoutToken(p, i) ==
  SubSeq(SearchedText, 1, i - 1)
    \o Rest(SearchedText, i + Len(UnitMatchAt(p, SearchedText, ToLowerCase(SearchedText), i)))

\* The quantity token was read as a number or as NaN, or there is none: the
\* unit is searched once.
SearchedOnce ==
  \/ MatchingQuantityPatterns = {}
  \/ ParseQuantityStr(Trim(QuantityMatch(Least(MatchingQuantityPatterns),
                                         TrimmedArgument).q)).k # "null"

\* C25: when a unit token is found, the name is the searched text with
\* exactly the matched occurrence of the token removed, trimmed; all other
\* characters stay, so "2 figs, 100 g each" keeps "figs" and loses only the
\* standalone "g".
C25_OnlyMatchedOccurrenceRemoved ==
  (Done("parseIngredient") /\ arg.t = "string" /\ TrimmedArgument # "" /\ SearchedOnce
     /\ MatchingFamilies # {}) =>
    /\ Trim(WithoutToken(Least(MatchingFamilies),
                         Least(FamilyPositions(Least(MatchingFamilies))))) # "" =>
         ret.ingredient_name =
           Trim(WithoutToken(Least(MatchingFamilies),
                             Least(FamilyPositions(Least(MatchingFamilies)))))
    /\ arg.s = "2 figs, 100 g each" => ret.ingredient_name = "figs, 100  each"

\* The token that family p matches leftmost in the searched text.
LeftmostToken(p) ==
  UnitMatchAt(p, SearchedText, ToLowerCase(SearchedText), Least(FamilyPositions(p)))

\* C26: the families are tried in the order volume, weight, length, count,
\* size descriptor, temperature word, start-of-text special case; the first
\* family that matches anywhere supplies the unit, taken at its leftmost
\* match, even when a token of a later family begins earlier in the text:
\* "1 can (14 oz) tomatoes" has the weight unit, and no unit is returned
\* when no family matches.
C26_FirstFamilyInOrderWins ==
  (Done("parseIngredient") /\ arg.t = "string" /\ TrimmedArgument # "" /\ SearchedOnce) =>
    /\ MatchingFamilies = {} => ret.unit = << >>
    /\ MatchingFamilies # {} =>
         ret.unit = << normalizeUnit(LeftmostToken(Least(MatchingFamilies))) >>
    /\ arg.s = "1 can (14 oz) tomatoes" => ret.unit = << "ounce" >>

\* "can" of the count family begins before "oz" of the weight family.
C26_Witness ==
  /\ Done("parseIngredient")
  /\ arg.s = "1 can (14 oz) tomatoes"
  /\ {2, 4} \subseteq MatchingFamilies
  /\ Least(FamilyPositions(4)) < Least(FamilyPositions(2))
  /\ ret.unit = << "ounce" >>

----------------------------------------------------------------------------
\* Routing of a time mention

\* The entries that the single-time pattern pushed: one for each time
\* mention "<number> <unit>" of the instruction.
Mentions == { i \in 1..Len(timeMatches) : timeMatches[i].family = 2 }

\* C27: a time mention whose window holds both a prep cue and a cook cue
\* ("stir" and "simmer") goes to prepMinutes and does not change
\* cookMinutes, and each time mention is assigned to at most one of the two
\* fields: an instruction with one time mention never has both times.
C27_MentionSetsAtMostOneField ==
  (Done("parseInstruction") /\ Cardinality(Mentions) = 1) =>
    /\ \A i \in Mentions :
         (SomeIncluded(PrepCues, timeMatches[i].context)
            /\ SomeIncluded(CookCues, timeMatches[i].context)) =>
           ret.prep_time = << timeMatches[i].minutes >> /\ ret.cook_time = << >>
    /\ ret.prep_time = << >> \/ ret.cook_time = << >>

\* The first half of C27 alone: a window with both cues sends the mention
\* to prepMinutes only.
C27_BothCuesGoToPrep ==
  (Done("parseInstruction") /\ Cardinality(Mentions) = 1) =>
    \A i \in Mentions :
      (SomeIncluded(PrepCues, timeMatches[i].context)
         /\ SomeIncluded(CookCues, timeMatches[i].context)) =>
        ret.prep_time = << timeMatches[i].minutes >> /\ ret.cook_time = << >>

----------------------------------------------------------------------------
\* The fallback classification

\* The name as classifyIngredient compares it: lower case, trimmed.
ComparedName == Trim(ToLowerCase(arg.s))

\* No keyword of any list is a substring of the name.
HasNoKeyword ==
  \A c \in 1..Len(INGREDIENT_CLASSIFICATIONS) :
    ~SomeIncluded(INGREDIENT_CLASSIFICATIONS[c][2], ComparedName)

\* The categories in the order of the fallback, a protein cue giving
\* protein_main.
FallbackOrder ==
  << "protein_main", "vegetable", "fruit", "grain", "dairy", "fat", "spice", "nuts_seeds",
     "condiments" >>

\* The hand-written cues of a category.
CuesOf(kind) ==
  PatternRules[CHOOSE r \in 1..Len(PatternRules) : PatternRules[r].kind = kind].general

\* The positions in FallbackOrder of the categories one of whose cues occurs
\* in the name.
CuedCategories ==
  { k \in 1..Len(FallbackOrder) : SomeIncluded(CuesOf(FallbackOrder[k]), ComparedName) }

\* C29: when the name contains no keyword of any list, no keyword-derived
\* regex matches it, and the result is the first category, in the order
\* protein, vegetable, fruit, grain, dairy, fat, spice, nuts_seeds,
\* condiments, with a hand-written cue in the name (protein_main for a
\* protein cue), and other when there is no cue; with a keyword in the name
\* the fallback is not used.
C29_FallbackDecidedByCuesAlone ==
  (Done("classifyIngredient") /\ ComparedName # "") =>
    /\ HasNoKeyword =>
         /\ \A r \in 1..Len(PatternRules) :
              ~KeywordPatternsMatch(PatternRules[r].keywords, ComparedName)
         /\ CuedCategories = {} => ret = "other"
         /\ CuedCategories # {} => ret = FallbackOrder[Least(CuedCategories)]
         /\ ret # "protein_source"
    /\ ~HasNoKeyword =>
         ret = FirstKeywordCategory(INGREDIENT_CLASSIFICATIONS, 1, ComparedName)

\* "herb dip" has a spice cue and a condiment cue and no keyword: spice.
C29_Witness ==
  /\ Done("classifyIngredient")
  /\ arg.s = "herb dip"
  /\ HasNoKeyword
  /\ CuedCategories = {7, 9}
  /\ ret = "spice"

----------------------------------------------------------------------------
\* The quantity returned

\* The value of the quantity token at the head of the argument; Null when no
\* quantity pattern matches.
HeadQuantity ==
  IF MatchingQuantityPatterns = {} THEN Null
  ELSE ParseQuantityStr(Trim(QuantityMatch(Least(MatchingQuantityPatterns),
                                           TrimmedArgument).q))

\* The head quantity is 0 or no number.
HeadIsZeroOrNoNumber ==
  HeadQuantity.k = "NaN" \/ (HeadQuantity.k = "number" /\ HeadQuantity.n = 0)

\* C30: a quantity that parseIngredient returns is a number greater than 0,
\* never 0, negative or NaN; a head quantity that is 0 ("0 cups flour",
\* "0/4 cup sugar") or no number is returned as absent, and unit and name
\* still come from the text after the quantity token.
C30_QuantityPositiveOrAbsent ==
  (Done("parseIngredient") /\ arg.t = "string" /\ TrimmedArgument # "") =>
    /\ ret.quantity # << >> =>
         \/ ret.quantity[1].k = "Infinity"
         \/ ret.quantity[1].k = "number" /\ ret.quantity[1].n > 0 /\ ret.quantity[1].d > 0
    /\ HeadIsZeroOrNoNumber =>
         /\ ret.quantity = << >>
         /\ MatchingFamilies = {} =>
              ret.unit = << >> /\ ret.ingredient_name = SearchedText
         /\ MatchingFamilies # {} =>
              /\ ret.unit = << normalizeUnit(LeftmostToken(Least(MatchingFamilies))) >>
              /\ Trim(ReplaceFirst(SearchedText, LeftmostToken(Least(MatchingFamilies)))) # "" =>
                   ret.ingredient_name =
                     Trim(ReplaceFirst(SearchedText, LeftmostToken(Least(MatchingFamilies))))
    /\ arg.s \in {"0 cups flour", "0.0 cups flour"} =>
         ret.quantity = << >> /\ ret.unit = << "cup" >> /\ ret.ingredient_name = "flour"
    /\ arg.s \in {"0/4 cup sugar", "0/0 cup sugar"} =>
         ret.quantity = << >> /\ ret.unit = << "cup" >> /\ ret.ingredient_name = "sugar"

\* "0/4 cup sugar": the quantity is absent, the unit and the name are read.
C30_Witness ==
  /\ Done("parseIngredient")
  /\ arg.s = "0/4 cup sugar"
  /\ HeadQuantity = Num(0, 1)
  /\ ret.quantity = << >>
  /\ ret.unit = << "cup" >>
  /\ ret.ingredient_name = "sugar"

====
